---- MODULE Spec2Model ----
(***************************************************************************)
(* Model of the goserial device handle (Port), its close guard, its timed  *)
(* read, and the OpenPTY allocation protocol, together with the part of    *)
(* the kernel they act on: the process's descriptor table and the pty      *)
(* slave lock.                                                             *)
(*                                                                         *)
(* Every method of Port is split at the places where the Go code reads     *)
(* shared memory or enters the kernel, so that other goroutines interleave *)
(* exactly where they can in the program: p.f.Load() and the system call   *)
(* that uses the loaded value are two steps.                               *)
(***************************************************************************)
EXTENDS Integers, Sequences, FiniteSets, TLC

\* ------------------------------------------------------------------ bounds
NumThreads == 2
MaxPorts == 4
MaxOpens == 2
MaxFd == 3
MaxTimeout == 0
MaxCloseCalls == 2
MaxLen == 2
MaxApplied == 2

Threads == 1..NumThreads
\* the Port values of a run; Open builds the first MaxOpens of them at most
Ports == 1..MaxPorts
\* descriptor values the kernel hands out
Fds == 1..MaxFd
\* values of time.Duration the callers use: two negative ones, and 0..MaxTimeout
Timeouts == {-2, -1} \cup (0..MaxTimeout)

\* ------------------------------------------------------------------ program constants
\* the value Close swaps into the descriptor slot
Invalid == -1
DefaultReadTimeout_Wait == MaxTimeout

\* NewOptions(): ReadTimeout: -1
DefaultReadTimeout == -1
\* the Options object a caller built itself and passes to Open; the Options
\* object NewOptions() builds for port h when opts == nil has the id h
CallerOpts == 0
OptIds == {CallerOpts} \cup Ports

\* ------------------------------------------------------------------ errors
\* An error value is the chain of messages from the outermost Error to the
\* cause: nil is <<>>, a syscall.Errno is <<name>>, Error{msg, err} is <<msg>> \o err.
NoErr == <<>>

wrapErr_WrapsNil(msg, e) == <<msg>> \o e

wrapErr(msg, e) == IF e = NoErr THEN NoErr ELSE <<msg>> \o e

Unwrap(e) == IF e = NoErr THEN NoErr ELSE Tail(e)

\* Error.Error(): msg, then ": " and the message of err, when msg is not empty;
\* the message of err alone when msg is empty. The message of a syscall.Errno
\* stands as its name.
RECURSIVE Message(_)
Message(e) ==
    IF Len(e) = 0 THEN ""
    ELSE IF Len(e) = 1 THEN e[1]
    ELSE IF e[1] # "" THEN e[1] \o ": " \o Message(Tail(e))
    ELSE Message(Tail(e))

ErrClosed == <<"port already closed", "EBADF">>

\* ------------------------------------------------------------------ terminal attributes
\* A flag word (IFlag, OFlag, CFlag, LFlag: uint32) is the set of the positions
\* of its one bits, so that &, | and &^ are the operations on bits they are in Go.
WordBits == 0..31

\* the word whose value is n, for the constants of the source (all below 2^31)
Bits(n) == {i \in 0..30 : (n \div (2^i)) % 2 = 1}

\* a | b | ... of the constants in S
OrAll(S) == UNION {Bits(n) : n \in S}

\* w & m
And(w, m) == w \cap m

\* w | m
Or(w, m) == w \cup m

\* w & ^(m)
AndNot(w, m) == w \ m

\* input mode flags (IFlag), with the octal form of the source
IGNBRK == 1           \* 0000001
BRKINT == 2           \* 0000002
PARMRK == 8           \* 0000010
ISTRIP == 32          \* 0000040
INLCR == 64           \* 0000100
IGNCR == 128          \* 0000200
ICRNL == 256          \* 0000400
IXON == 1024          \* 0002000

\* output mode flags (OFlag), with the octal form of the source
OPOST == 1            \* 0000001
ONLCR == 4            \* 0000004

\* control mode flags (CFlag), with the octal form of the source
CBAUD == 4111         \* 0010017
B0 == 0               \* 0000000
B50 == 1              \* 0000001
B75 == 2              \* 0000002
B110 == 3             \* 0000003
B134 == 4             \* 0000004
B150 == 5             \* 0000005
B200 == 6             \* 0000006
B300 == 7             \* 0000007
B600 == 8             \* 0000010
B1200 == 9            \* 0000011
B1800 == 10           \* 0000012
B2400 == 11           \* 0000013
B4800 == 12           \* 0000014
B9600 == 13           \* 0000015
B19200 == 14          \* 0000016
B38400 == 15          \* 0000017
CSIZE == 48           \* 0000060
CS7 == 32             \* 0000040
CS8 == 48             \* 0000060
CREAD == 128          \* 0000200
PARENB == 256         \* 0000400
CLOCAL == 2048        \* 0004000
BOTHER == 4096        \* 0010000
B57600 == 4097        \* 0010001
B115200 == 4098       \* 0010002
B230400 == 4099       \* 0010003
B460800 == 4100       \* 0010004
B500000 == 4101       \* 0010005
B576000 == 4102       \* 0010006
B921600 == 4103       \* 0010007
B1000000 == 4104      \* 0010010
B1152000 == 4105      \* 0010011
B1500000 == 4106      \* 0010012
B2000000 == 4107      \* 0010013
B2500000 == 4108      \* 0010014
B3000000 == 4109      \* 0010015
B3500000 == 4110      \* 0010016
B4000000 == 4111      \* 0010017

\* local mode flags (LFlag), with the octal form of the source
ISIG == 1             \* 0000001
ICANON == 2           \* 0000002
ECHO == 8             \* 0000010
ECHOE == 16           \* 0000020
ECHONL == 64          \* 0000100
IEXTEN == 32768       \* 0100000

\* Action, the iota constants of SetAttr's when
TCSANOW == 0
TCSADRAIN == 1
TCSAFLUSH == 2
Actions == {TCSANOW, TCSADRAIN, TCSAFLUSH}

\* Cc [19]byte
NCCS == 19

\* Termios{}: the default-constructed legacy value
TermiosZero ==
    [Iflag |-> {}, Oflag |-> {}, Cflag |-> {}, Lflag |-> {}, Line |-> 0,
     Cc |-> [i \in 1..NCCS |-> 0]]

\* the legacy value with every bit of every field set
TermiosOnes ==
    [Iflag |-> WordBits, Oflag |-> WordBits, Cflag |-> WordBits, Lflag |-> WordBits,
     Line |-> 255, Cc |-> [i \in 1..NCCS |-> 255]]

\* a line in cooked mode at 9600 baud, seven bits, parity
TermiosCooked ==
    [Iflag |-> OrAll({ICRNL, IXON}), Oflag |-> OrAll({OPOST, ONLCR}),
     Cflag |-> OrAll({B9600, CS7, PARENB, CREAD, CLOCAL}),
     Lflag |-> OrAll({ISIG, ICANON, ECHO, ECHOE, IEXTEN}),
     Line |-> 0, Cc |-> [i \in 1..NCCS |-> i]]

\* Termios2: the fields of Termios, and ISpeed and OSpeed
Termios2Of(a, iSpeed, oSpeed) ==
    [Iflag |-> a.Iflag, Oflag |-> a.Oflag, Cflag |-> a.Cflag, Lflag |-> a.Lflag,
     Line |-> a.Line, Cc |-> a.Cc, ISpeed |-> iSpeed, OSpeed |-> oSpeed]

IsTermios2(a) == "ISpeed" \in DOMAIN a

\* The memory of a Termios or a Termios2, which is what the pointer passed to
\* ioctl gives the kernel to read and to write: the fields in the order of the
\* struct, each uint32 as its four bytes, lowest first, then Line, then Cc.
ByteOf(w, j) ==
    LET b(i) == IF 8 * j + i \in w THEN 2^i ELSE 0
    IN b(0) + b(1) + b(2) + b(3) + b(4) + b(5) + b(6) + b(7)

WordBytes_HighFirst(w) == <<ByteOf(w, 3), ByteOf(w, 2), ByteOf(w, 1), ByteOf(w, 0)>>

\* the four bytes of a flag word in memory
WordBytes(w) == <<ByteOf(w, 0), ByteOf(w, 1), ByteOf(w, 2), ByteOf(w, 3)>>

\* the flag word that four bytes of memory are
BytesWord(b) == {n \in WordBits : (b[(n \div 8) + 1] \div (2^(n % 8))) % 2 = 1}

\* the four bytes of a uint32 speed in memory, and the speed they are
SpeedBytes(v) == <<v % 256, (v \div 256) % 256, (v \div 65536) % 256, v \div 16777216>>
BytesSpeed(b) == b[1] + 256 * b[2] + 65536 * b[3] + 16777216 * b[4]

\* the 36 bytes of a Termios
TermiosBytes(a) ==
    WordBytes(a.Iflag) \o WordBytes(a.Oflag) \o WordBytes(a.Cflag) \o WordBytes(a.Lflag)
        \o <<a.Line>> \o [i \in 1..NCCS |-> a.Cc[i]]

\* the Termios that 36 bytes are
BytesTermios(b) ==
    [Iflag |-> BytesWord(SubSeq(b, 1, 4)), Oflag |-> BytesWord(SubSeq(b, 5, 8)),
     Cflag |-> BytesWord(SubSeq(b, 9, 12)), Lflag |-> BytesWord(SubSeq(b, 13, 16)),
     Line |-> b[17], Cc |-> [i \in 1..NCCS |-> b[17 + i]]]

\* the 44 bytes of a Termios2: those of its first six fields, then the two speeds
Termios2Bytes(a) == TermiosBytes(a) \o SpeedBytes(a.ISpeed) \o SpeedBytes(a.OSpeed)

\* the Termios2 that 44 bytes are
BytesTermios2(b) ==
    Termios2Of(BytesTermios(b), BytesSpeed(SubSeq(b, 18 + NCCS, 21 + NCCS)),
               BytesSpeed(SubSeq(b, 22 + NCCS, 25 + NCCS)))

\* unsafe.Pointer(attrs), attrs a *Termios or a *Termios2: the memory of its own type
PointerBytes(a) == IF IsTermios2(a) THEN Termios2Bytes(a) ELSE TermiosBytes(a)

\* the attribute values the callers start from
LegacyInputs == {TermiosZero, TermiosOnes, TermiosCooked}
ExtendedInputs ==
    {Termios2Of(a, v, v) : a \in LegacyInputs, v \in {0, 9600}}
AttrInputs == LegacyInputs \cup ExtendedInputs

\* the enumerated speed codes B0..B38400 and B57600..B4000000
SpeedCodes ==
    {B0, B50, B75, B110, B134, B150, B200, B300, B600, B1200, B1800, B2400, B4800,
     B9600, B19200, B38400, B57600, B115200, B230400, B460800, B500000, B576000,
     B921600, B1000000, B1152000, B1500000, B2000000, B2500000, B3000000, B3500000,
     B4000000}

\* the rates in Hz the callers pass to SetCustomSpeed and SetCustomIOSpeed
CustomSpeeds == {50, 9600, 115200, 1000000, 4000000}

MakeRaw_Toggle(a) ==
    [a EXCEPT !.Iflag = AndNot(@, OrAll({IGNBRK, BRKINT, PARMRK, ISTRIP, INLCR, IGNCR,
                                          ICRNL, IXON})),
              !.Oflag = AndNot(@, Bits(OPOST)),
              !.Lflag = AndNot(@, OrAll({ECHO, ECHONL, ICANON, ISIG, IEXTEN})),
              !.Cflag = Or((@ \ OrAll({CSIZE, PARENB})) \cup (OrAll({CSIZE, PARENB}) \ @),
                           Bits(CS8))]

MakeRaw_ClearsBaud(a) ==
    [a EXCEPT !.Iflag = AndNot(@, OrAll({IGNBRK, BRKINT, PARMRK, ISTRIP, INLCR, IGNCR,
                                          ICRNL, IXON})),
              !.Oflag = AndNot(@, Bits(OPOST)),
              !.Lflag = AndNot(@, OrAll({ECHO, ECHONL, ICANON, ISIG, IEXTEN})),
              !.Cflag = Or(AndNot(@, OrAll({CSIZE, PARENB, CBAUD})), Bits(CS8))]

MakeRaw_KeepExtended(a) ==
    [a EXCEPT !.Iflag = AndNot(@, OrAll({IGNBRK, BRKINT, PARMRK, ISTRIP, INLCR, IGNCR,
                                          ICRNL, IXON})),
              !.Oflag = AndNot(@, Bits(OPOST)),
              !.Lflag = AndNot(@, OrAll({ECHO, ECHONL, ICANON, ISIG})),
              !.Cflag = Or(AndNot(@, OrAll({CSIZE, PARENB})), Bits(CS8))]

\* Termios.MakeRaw and Termios2.MakeRaw, the same four statements on the flag words
MakeRaw(a) ==
    [a EXCEPT !.Iflag = AndNot(@, OrAll({IGNBRK, BRKINT, PARMRK, ISTRIP, INLCR, IGNCR,
                                          ICRNL, IXON})),
              !.Oflag = AndNot(@, Bits(OPOST)),
              !.Lflag = AndNot(@, OrAll({ECHO, ECHONL, ICANON, ISIG, IEXTEN})),
              !.Cflag = Or(AndNot(@, OrAll({CSIZE, PARENB})), Bits(CS8))]

SetSpeed_OrOnly(a, speed) == [a EXCEPT !.Cflag = Or(@, Bits(speed))]

\* Termios.SetSpeed and Termios2.SetSpeed: Cflag &= ^(CBAUD); Cflag |= speed
SetSpeed(a, speed) == [a EXCEPT !.Cflag = Or(AndNot(@, Bits(CBAUD)), Bits(speed))]

SetCustomIOSpeed_Swapped(a, iSpeed, oSpeed) ==
    [a EXCEPT !.Cflag = Or(AndNot(@, Bits(CBAUD)), Bits(BOTHER)),
              !.ISpeed = oSpeed, !.OSpeed = iSpeed]

\* Termios2.SetCustomIOSpeed
SetCustomIOSpeed(a, iSpeed, oSpeed) ==
    [a EXCEPT !.Cflag = Or(AndNot(@, Bits(CBAUD)), Bits(BOTHER)),
              !.ISpeed = iSpeed, !.OSpeed = oSpeed]

\* Termios2.SetCustomSpeed
SetCustomSpeed(a, speed) ==
    [a EXCEPT !.Cflag = Or(AndNot(@, Bits(CBAUD)), Bits(BOTHER)),
              !.ISpeed = speed, !.OSpeed = speed]

\* ioctl request codes
tcgets == 21505        \* 0x5401
tcsets == 21506        \* 0x5402
tcsetsw == 21507       \* 0x5403
tcsetsf == 21508       \* 0x5404

\* unsafe.Sizeof(Termios{}): four uint32 flag words, the Line byte, Cc
SizeofTermios == 4 * 4 + 1 + NCCS

\* unsafe.Sizeof(Termios2{}): four uint32 flag words, the Line byte, Cc, two uint32
SizeofTermios2 == 4 * 4 + 1 + NCCS + 2 * 4

\* ioctl.IOW(t, nr, size): the write direction in bits 30-31, the size in bits
\* 16-29, the type in bits 8-15, the number in bits 0-7
IOW(t, nr, size) == 1 * 2^30 + size * 2^16 + t * 2^8 + nr

\* 'T' is 84, and 0x2B, 0x2C, 0x2D are 43, 44, 45
tcsets2 == IOW(84, 43, SizeofTermios2)
tcsetsw2 == IOW(84, 44, SizeofTermios2)
tcsetsf2 == IOW(84, 45, SizeofTermios2)

\* ioctl.IOR(t, nr, size): as IOW, with the read direction, which is bit 31; the
\* code is written as the 32-bit two's complement number with these bits
IOR(t, nr, size) == (-2) * 2^30 + size * 2^16 + t * 2^8 + nr

tcsbrk == 21513        \* 0x5409
tcflsh == 21515        \* 0x540B
tiocmget == 21525      \* 0x5415
tiocmbis == 21526      \* 0x5416
tiocmbic == 21527      \* 0x5417
tiocmset == 21528      \* 0x5418
\* tiocmbic as ioctl_linux.go and spi.go have it
tiocmbicHigh == 25623  \* 0x6417

\* Queue, the iota constants of Flush's queue
TCIFLUSH == 0
TCOFLUSH == 1
TCIOFLUSH == 2
Queues == {TCIFLUSH, TCOFLUSH, TCIOFLUSH}

\* ModemLine
TIOCM_LE == 1          \* 0x001
TIOCM_DTR == 2         \* 0x002
TIOCM_RTS == 4         \* 0x004

\* The three files of request codes in the source, each a var block of package
\* serial that a build holds one of.
Builds == {"part_001", "spi", "ioctl_linux"}

\* the unsafe.Sizeof(...) in the four extended attribute codes of file v
SizeofInCodes(v) == IF v = "ioctl_linux" THEN SizeofTermios ELSE SizeofTermios2

\* the request codes of file v that the three files all define
Codes(v) ==
    [tcgets2 |-> IOR(84, 42, SizeofInCodes(v)),
     tcsets2 |-> IOW(84, 43, SizeofInCodes(v)),
     tcsetsw2 |-> IOW(84, 44, SizeofInCodes(v)),
     tcsetsf2 |-> IOW(84, 45, SizeofInCodes(v)),
     tcflsh |-> tcflsh,
     tiocmget |-> tiocmget,
     tiocmbis |-> tiocmbis,
     tiocmbic |-> IF v = "part_001" THEN tiocmbic ELSE tiocmbicHigh,
     tiocmset |-> tiocmset]

\* Options.OpenMode is an int of open(2) flags: the set of the flags or-ed into it.
\* NewOptions(): syscall.O_RDWR | syscall.O_NOCTTY | syscall.SYS_SYNC
DefaultOpenMode == {"O_RDWR", "O_NOCTTY", "SYS_SYNC"}
\* the modes a caller stores in its own Options
OpenModes == {DefaultOpenMode, {"O_RDWR", "O_NONBLOCK"}}

\* ------------------------------------------------------------------ state
VARIABLES
    made,          \* the Port values handed to callers
    f,             \* Port.f: the descriptor slot of each Port
    options,       \* Port.options: the Options object each Port points to
    ReadTimeout,   \* Options.ReadTimeout of each Options object
    nextPort,      \* the next Port to be allocated
    openFds,       \* kernel: the descriptors open in this process
    locked,        \* kernel: the open pty masters whose slave is still locked
    thr,           \* each goroutine's position in the method it runs, and its locals
    nOsClose,      \* history: OS close calls issued with each Port's descriptor
    pairs,         \* history: the <<master, slave>> pairs OpenPTY returned
    OpenMode,      \* Options.OpenMode of each Options object
    termios,       \* kernel: the attributes of the device open at each descriptor
    attrs,         \* an attributes value (*Termios or *Termios2) the caller holds
    applied,       \* history: the last method applied to attrs, and attrs before it
    mlines,        \* kernel: the modem lines set on the device open at each descriptor
    build,         \* the file of request codes the program is built with
    err            \* an error value the caller holds

vars == <<made, f, options, ReadTimeout, nextPort, openFds, locked, thr, nOsClose, pairs,
          OpenMode, termios, attrs, applied, mlines, build, err>>

kernelVars == <<openFds, locked>>
portVars == <<made, f, options, nextPort>>
termVars == <<termios, attrs, applied>>
restVars == <<mlines, build, err>>

\* A goroutine that runs no method.
Idle ==
    [op |-> "none", pc |-> "idle", h |-> 0, fd |-> 0, tmo |-> 0, late |-> FALSE,
     raced |-> FALSE, stale |-> FALSE, arg |-> 0, calls |-> <<>>, res |-> NoErr, n |-> 0,
     got |-> TermiosZero, line |-> {}, s |-> 0, termp |-> FALSE,
     winp |-> FALSE, owned |-> {}, cleanup |-> {}, rets |-> {}]

\* One OS call as the goroutine issued it: its name, the descriptor passed, the errno.
Call(name, fd, errno) == [call |-> name, fd |-> fd, r |-> errno]

\* A read or write as the goroutine issued it, with the byte count the OS returned.
CallN(name, fd, errno, n) == [call |-> name, fd |-> fd, r |-> errno, n |-> n]

\* no method was applied to attrs yet
NoneApplied == [op |-> "none", args |-> <<>>, before |-> TermiosZero, k |-> 0]

\* Nothing is open yet; the caller's own Options object holds timeout v.
InitPorts(v) ==
    /\ made = {}
    /\ f = [h \in Ports |-> Invalid]
    /\ options = [h \in Ports |-> h]
    /\ ReadTimeout = [o \in OptIds |-> IF o = CallerOpts THEN v ELSE DefaultReadTimeout]
    /\ nextPort = 1
    /\ openFds = {}
    /\ locked = {}
    /\ thr = [t \in Threads |-> Idle]
    /\ nOsClose = [h \in Ports |-> 0]
    /\ pairs = {}
    /\ OpenMode = [o \in OptIds |-> DefaultOpenMode]
    /\ termios = [d \in Fds |-> Termios2Of(TermiosCooked, 9600, 9600)]
    /\ mlines = [d \in Fds |-> {}]

\* ... and the caller holds a default-constructed attributes value.
InitWith(v) ==
    /\ InitPorts(v)
    /\ build = "part_001"
    /\ err = NoErr
    /\ attrs = TermiosZero
    /\ applied = NoneApplied

\* The caller holds any of the attribute values, and nothing is open.
InitAttrs ==
    /\ InitPorts(DefaultReadTimeout)
    /\ build = "part_001"
    /\ err = NoErr
    /\ attrs \in AttrInputs
    /\ applied = NoneApplied

\* The caller built its Options with NewOptions().SetReadTimeout(v), for any v.
Init == \E v \in Timeouts : InitWith(v)

\* The caller built its Options with NewOptions().
InitDefault == InitWith(DefaultReadTimeout)

\* ------------------------------------------------------------------ kernel
\* open(2) and TIOCGPTPEER return the lowest descriptor not in use.
LowestFree == CHOOSE d \in Fds \ openFds : \A e \in Fds \ openFds : d <= e

\* The errno of a read, write, poll or ioctl on descriptor d: EBADF when d is
\* not open, and otherwise success or a device error, as the device decides.
Errnos(d) == IF d \in openFds THEN {"nil", "EIO"} ELSE {"EBADF"}

ErrOf(errno) == IF errno = "nil" THEN NoErr ELSE <<errno>>

\* The count syscall.Read and syscall.Write return for a buffer of MaxLen bytes:
\* -1 with an error, and otherwise any part of the buffer.
Counts(errno) == IF errno = "nil" THEN 0..MaxLen ELSE {-1}

\* An OS call on a descriptor value that h's Close has already passed to close(2).
Stale(h, d) == d # Invalid /\ nOsClose[h] > 0


\* ------------------------------------------------------------------ Open
\* Open(name, opts): opts == nil builds fresh defaults; syscall.Open fails (no
\* such path, no permission, no descriptor left) or returns a new descriptor.
OpenFlags_Default(nilOpts) == DefaultOpenMode

\* syscall.Open(name, opts.OpenMode, 0), opts being NewOptions() when nil was passed
OpenFlags(nilOpts) == IF nilOpts THEN DefaultOpenMode ELSE OpenMode[CallerOpts]

\* The open(2) call as Open issued it: the flags passed, the descriptor or -1, the errno.
CallOpen(mode, fd, errno) == [call |-> "open", fd |-> fd, r |-> errno, mode |-> mode]

OpenFail(t, nilOpts) ==
    /\ thr[t].pc = "idle"
    /\ thr' = [thr EXCEPT ![t] = [Idle EXCEPT !.op = "Open", !.pc = "ret",
                                   !.calls = <<CallOpen(OpenFlags(nilOpts), Invalid, "ENOENT")>>,
                                   !.res = wrapErr("Open", <<"ENOENT">>)]]
    /\ UNCHANGED <<portVars, ReadTimeout, kernelVars, nOsClose, pairs, OpenMode, termVars, restVars>>

OpenOk(t, nilOpts) ==
    /\ thr[t].pc = "idle"
    /\ nextPort \in Ports
    /\ nextPort <= MaxOpens
    /\ Fds \ openFds # {}
    /\ LET h == nextPort
           d == LowestFree
       IN /\ openFds' = openFds \cup {d}
          /\ f' = [f EXCEPT ![h] = d]
          /\ options' = [options EXCEPT ![h] = IF nilOpts THEN h ELSE CallerOpts]
          /\ ReadTimeout' = IF nilOpts
                            THEN [ReadTimeout EXCEPT ![h] = DefaultReadTimeout]
                            ELSE ReadTimeout
          /\ made' = made \cup {h}
          /\ nextPort' = h + 1
          /\ thr' = [thr EXCEPT ![t] = [Idle EXCEPT !.op = "Open", !.pc = "ret", !.h = h,
                                         !.calls = <<CallOpen(OpenFlags(nilOpts), d, "nil")>>]]
    /\ UNCHANGED <<locked, nOsClose, pairs, OpenMode, termVars, restVars>>

\* The caller stores another mode in the OpenMode field of its own Options object.
OptionsSetOpenMode(m) ==
    /\ OpenMode[CallerOpts] # m
    /\ OpenMode' = [OpenMode EXCEPT ![CallerOpts] = m]
    /\ UNCHANGED <<portVars, ReadTimeout, kernelVars, thr, nOsClose, pairs, termVars, restVars>>

\* The caller opens a descriptor itself, outside the package, to hand it to NewPort.
ExternOpen ==
    /\ Fds \ openFds # {}
    /\ openFds' = openFds \cup {LowestFree}
    /\ UNCHANGED <<portVars, ReadTimeout, locked, thr, nOsClose, pairs, OpenMode, termVars, restVars>>

NewPortFd_Unset(fd) == Invalid

\* res.f.Store(fd)
NewPortFd(fd) == fd

\* NewPort(fd, opts) on a descriptor that is open: no OS call, and the error is nil
NewPort(t, d, nilOpts) ==
    /\ thr[t].pc = "idle"
    /\ nextPort \in Ports
    /\ nextPort <= MaxOpens
    /\ d \in openFds
    /\ LET h == nextPort
       IN /\ f' = [f EXCEPT ![h] = NewPortFd(d)]
          /\ options' = [options EXCEPT ![h] = IF nilOpts THEN h ELSE CallerOpts]
          /\ ReadTimeout' = IF nilOpts
                            THEN [ReadTimeout EXCEPT ![h] = DefaultReadTimeout]
                            ELSE ReadTimeout
          /\ made' = made \cup {h}
          /\ nextPort' = h + 1
          /\ thr' = [thr EXCEPT ![t] = [Idle EXCEPT !.op = "NewPort", !.pc = "ret", !.h = h,
                                         !.fd = d]]
    /\ UNCHANGED <<kernelVars, nOsClose, pairs, OpenMode, termVars, restVars>>

\* Options.SetReadTimeout on the caller's own Options object.
OptionsSetReadTimeout(v) ==
    /\ ReadTimeout[CallerOpts] # v
    /\ ReadTimeout' = [ReadTimeout EXCEPT ![CallerOpts] = v]
    /\ thr' = [t \in Threads |->
                 IF thr[t].pc = "rt_arg" /\ options[thr[t].h] = CallerOpts
                 THEN [thr[t] EXCEPT !.raced = TRUE] ELSE thr[t]]
    /\ UNCHANGED <<portVars, kernelVars, nOsClose, pairs, OpenMode, termVars, restVars>>

\* The method is over: the goroutine is free to call the next one.
Return(t) ==
    /\ thr[t].pc = "ret"
    /\ thr' = [thr EXCEPT ![t] = Idle]
    /\ UNCHANGED <<portVars, ReadTimeout, kernelVars, nOsClose, pairs, OpenMode, termVars, restVars>>

\* ------------------------------------------------------------------ Close
\* if x := p.f.Swap(-1); x != -1 { return wrapErr("Close", syscall.Close(x)) }
\* return ErrClosed
CloseStore_Load(x) == x

\* the value the swap leaves in the slot
CloseStore(x) == Invalid

CloseWon_Always(x) == TRUE

\* x != -1: this caller took a descriptor out of the slot
CloseWon(x) == x # Invalid

\* close(2) releases the descriptor whatever it returns.
CloseErrnos(d) == IF d \in openFds THEN {"nil", "EIO"} ELSE {"EBADF"}

AfterCloseFail_Restore(h, x, errno) == IF errno = "nil" THEN f[h] ELSE x

\* the slot after the OS close returned errno: Close does not touch it again
AfterCloseFail(h, x, errno) == f[h]

CloseSwap(t, h) ==
    /\ thr[t].pc = "idle"
    /\ h \in made
    /\ nOsClose[h] < MaxCloseCalls
    /\ LET x == f[h]
       IN /\ f' = [f EXCEPT ![h] = CloseStore(x)]
          /\ IF CloseWon(x)
             THEN thr' = [thr EXCEPT ![t] = [Idle EXCEPT !.op = "Close", !.pc = "close",
                                              !.h = h, !.fd = x]]
             ELSE thr' = [thr EXCEPT ![t] = [Idle EXCEPT !.op = "Close", !.pc = "ret",
                                              !.h = h, !.fd = x, !.res = ErrClosed]]
    /\ UNCHANGED <<made, options, nextPort, ReadTimeout, kernelVars, nOsClose, pairs, OpenMode, termVars, restVars>>

CloseSyscall(t) ==
    /\ thr[t].pc = "close"
    /\ LET h == thr[t].h
           x == thr[t].fd
       IN \E errno \in CloseErrnos(x) :
            /\ openFds' = openFds \ {x}
            /\ locked' = locked \ {x}
            /\ f' = [f EXCEPT ![h] = AfterCloseFail(h, x, errno)]
            /\ nOsClose' = [nOsClose EXCEPT ![h] = @ + 1]
            /\ thr' = [thr EXCEPT ![t] = [@ EXCEPT !.pc = "ret",
                                           !.calls = <<Call("close", x, errno)>>,
                                           !.res = wrapErr("Close", ErrOf(errno))]]
    /\ UNCHANGED <<made, options, nextPort, ReadTimeout, pairs, OpenMode, termVars, restVars>>

\* ------------------------------------------------------------------ Write
\* x, err := syscall.Write(p.f.Load().(int), data); return x, wrapErr("Write", err)
WriteLoad(t, h) ==
    /\ thr[t].pc = "idle"
    /\ h \in made
    /\ thr' = [thr EXCEPT ![t] = [Idle EXCEPT !.op = "Write", !.pc = "write", !.h = h,
                                   !.fd = f[h], !.late = nOsClose[h] > 0]]
    /\ UNCHANGED <<portVars, ReadTimeout, kernelVars, nOsClose, pairs, OpenMode, termVars, restVars>>

WriteCount_Whole(x) == IF x < 0 THEN x ELSE MaxLen

\* return x, wrapErr("Write", err): the count is the one syscall.Write returned
WriteCount(x) == x

WriteSyscall(t) ==
    /\ thr[t].pc = "write"
    /\ \E errno \in Errnos(thr[t].fd) : \E x \in Counts(errno) :
         thr' = [thr EXCEPT ![t] = [@ EXCEPT !.pc = "ret",
                                     !.stale = Stale(thr[t].h, thr[t].fd),
                                     !.calls = <<CallN("write", thr[t].fd, errno, x)>>,
                                     !.n = WriteCount(x),
                                     !.res = wrapErr("Write", ErrOf(errno))]]
    /\ UNCHANGED <<portVars, ReadTimeout, kernelVars, nOsClose, pairs, OpenMode, termVars, restVars>>

\* ------------------------------------------------------------------ Read
WantsWait_Positive(timeout) == timeout > 0

\* if p.options.ReadTimeout > -1
WantsWait(timeout) == timeout > -1

\* poll.WaitInput(fd, timeout): readable, timed out (a timeout >= 0 only), or failed
WaitErrnos(d, timeout) ==
    IF d \in openFds
    THEN {"nil", "EIO"} \cup (IF timeout >= 0 THEN {"ETIMEDOUT"} ELSE {})
    ELSE {"EBADF"}

\* Read: the test of p.options.ReadTimeout
ReadCheck(t, h) ==
    /\ thr[t].pc = "idle"
    /\ h \in made
    /\ LET tmo == ReadTimeout[options[h]]
       IN thr' = [thr EXCEPT ![t] = [Idle EXCEPT !.op = "Read", !.h = h, !.tmo = tmo,
                                      !.pc = IF WantsWait(tmo) THEN "rt_arg" ELSE "rd_load",
                                      !.late = nOsClose[h] > 0]]
    /\ UNCHANGED <<portVars, ReadTimeout, kernelVars, nOsClose, pairs, OpenMode, termVars, restVars>>

\* Read: p.readTimeout(data, p.options.ReadTimeout) reads the field a second time
ReadArg(t) ==
    /\ thr[t].pc = "rt_arg"
    /\ thr' = [thr EXCEPT ![t] = [@ EXCEPT !.pc = "rt_pload",
                                   !.arg = ReadTimeout[options[thr[t].h]]]]
    /\ UNCHANGED <<portVars, ReadTimeout, kernelVars, nOsClose, pairs, OpenMode, termVars, restVars>>

\* readTimeout: the p.f.Load() that poll.WaitInput is called with
PollLoad(t) ==
    /\ thr[t].pc = "rt_pload"
    /\ thr' = [thr EXCEPT ![t] = [@ EXCEPT !.pc = "rt_poll", !.fd = f[thr[t].h]]]
    /\ UNCHANGED <<portVars, ReadTimeout, kernelVars, nOsClose, pairs, OpenMode, termVars, restVars>>

\* readTimeout: poll.WaitInput; an error returns 0, wrapErr("", err)
AfterWait_Always(errno) == "rt_rload"

\* if err := poll.WaitInput(...); err != nil { return 0, wrapErr("", err) }
AfterWait(errno) == IF errno = "nil" THEN "rt_rload" ELSE "ret"

PollCall(t) ==
    /\ thr[t].pc = "rt_poll"
    /\ \E errno \in WaitErrnos(thr[t].fd, thr[t].arg) :
         thr' = [thr EXCEPT ![t] = [@ EXCEPT !.pc = AfterWait(errno),
                                     !.n = 0,
                                     !.stale = Stale(thr[t].h, thr[t].fd),
                                     !.calls = <<Call("poll", thr[t].fd, errno)>>,
                                     !.res = wrapErr("", ErrOf(errno))]]
    /\ UNCHANGED <<portVars, ReadTimeout, kernelVars, nOsClose, pairs, OpenMode, termVars, restVars>>

\* the p.f.Load() that syscall.Read is called with, in readTimeout and in Read
ReadLoad(t) ==
    /\ thr[t].pc \in {"rt_rload", "rd_load"}
    /\ thr' = [thr EXCEPT ![t] = [@ EXCEPT !.pc = IF thr[t].pc = "rt_rload" THEN "rt_read"
                                                  ELSE "rd_read",
                                   !.fd = f[thr[t].h]]]
    /\ UNCHANGED <<portVars, ReadTimeout, kernelVars, nOsClose, pairs, OpenMode, termVars, restVars>>

\* syscall.Read, wrapped as "ReadTimeout" in readTimeout and as "Read" in Read
ReadSyscall(t) ==
    /\ thr[t].pc \in {"rt_read", "rd_read"}
    /\ \E errno \in Errnos(thr[t].fd) : \E x \in Counts(errno) :
         thr' = [thr EXCEPT ![t] = [@ EXCEPT !.pc = "ret",
                    !.stale = @ \/ Stale(thr[t].h, thr[t].fd),
                    !.calls = Append(@, CallN("read", thr[t].fd, errno, x)),
                    !.n = x,
                    !.res = wrapErr(IF thr[t].pc = "rt_read" THEN "ReadTimeout" ELSE "Read",
                                    ErrOf(errno))]]
    /\ UNCHANGED <<portVars, ReadTimeout, kernelVars, nOsClose, pairs, OpenMode, termVars, restVars>>

\* Port.SetReadTimeout: p.options.ReadTimeout = timeout, one store, no check of the slot
TimeoutSlot_Own(h) == h

\* p.options.ReadTimeout: the field of the Options that p.options points to
TimeoutSlot(h) == options[h]

SetReadTimeout(h, v) ==
    /\ h \in made
    /\ ReadTimeout[options[h]] # v
    /\ ReadTimeout' = [ReadTimeout EXCEPT ![TimeoutSlot(h)] = v]
    /\ thr' = [t \in Threads |->
                 IF thr[t].pc = "rt_arg" /\ options[thr[t].h] = options[h]
                 THEN [thr[t] EXCEPT !.raced = TRUE] ELSE thr[t]]
    /\ UNCHANGED <<portVars, kernelVars, nOsClose, pairs, OpenMode, termVars, restVars>>

\* ------------------------------------------------------------------ control calls
\* The methods that are one ioctl on p.f.Load(): GetAttr (tcgets) and Flush (tcflsh)
\* stand for them; each returns wrapErr(<its name>, err).
CtlOps == {"GetAttr", "Flush"}

CtlLoad(t, h, name) ==
    /\ thr[t].pc = "idle"
    /\ h \in made
    /\ thr' = [thr EXCEPT ![t] = [Idle EXCEPT !.op = name, !.pc = "ioctl", !.h = h,
                                   !.fd = f[h], !.late = nOsClose[h] > 0]]
    /\ UNCHANGED <<portVars, ReadTimeout, kernelVars, nOsClose, pairs, OpenMode, termVars, restVars>>

CtlSyscall(t) ==
    /\ thr[t].pc = "ioctl"
    /\ \E errno \in Errnos(thr[t].fd) :
         thr' = [thr EXCEPT ![t] = [@ EXCEPT !.pc = "ret",
                                     !.stale = Stale(thr[t].h, thr[t].fd),
                                     !.calls = <<Call("ioctl", thr[t].fd, errno)>>,
                                     !.res = wrapErr(thr[t].op, ErrOf(errno))]]
    /\ UNCHANGED <<portVars, ReadTimeout, kernelVars, nOsClose, pairs, OpenMode, termVars, restVars>>

\* ------------------------------------------------------------------ attributes of the port
\* An ioctl as the goroutine issued it: the request code, the descriptor, the
\* errno, and the attributes value behind the pointer passed.
CallIoctl(req, fd, errno, a) == [call |-> "ioctl", fd |-> fd, r |-> errno, req |-> req, arg |-> a]

\* What tcgets stores in a Termios: the kernel's attributes without the two speeds.
LegacyOf(k) ==
    [Iflag |-> k.Iflag, Oflag |-> k.Oflag, Cflag |-> k.Cflag, Lflag |-> k.Lflag,
     Line |-> k.Line, Cc |-> k.Cc]

\* The kernel's attributes after a successful set with value a: a Termios leaves
\* the two speeds as they were, a Termios2 carries them.
KernelSet(k, a) == IF IsTermios2(a) THEN a ELSE Termios2Of(a, k.ISpeed, k.OSpeed)

SetAttrReq_Now(when) == tcsets

\* SetAttr: tcsets+uintptr(when)
SetAttrReq(when) == tcsets + when

\* SetAttr2: tcsets2+uintptr(when)
SetAttr2Req(when) == tcsets2 + when

\* the values the callers pass to SetAttr and to SetAttr2
SetAttrArgs == {TermiosOnes}
SetAttr2Args == {Termios2Of(TermiosCooked, 50, 50)}

\* SetAttr and SetAttr2: the p.f.Load() the ioctl is called with
SetAttrLoad(t, h, name, when) ==
    /\ thr[t].pc = "idle"
    /\ h \in made
    /\ thr' = [thr EXCEPT ![t] = [Idle EXCEPT !.op = name, !.pc = "sa_ioctl", !.h = h,
                                   !.arg = when, !.fd = f[h],
                                   !.late = nOsClose[h] > 0]]
    /\ UNCHANGED <<portVars, ReadTimeout, kernelVars, nOsClose, pairs, OpenMode, termVars, restVars>>

\* The kernel sets the attributes for the six set codes; tcgets and tcsbrk are
\* requests of its own too, which leave the attributes; any other code is ENOTTY
\* on a terminal.
SetCodes == {tcsets, tcsetsw, tcsetsf, tcsets2, tcsetsw2, tcsetsf2}
SetErrnos(req, d) ==
    IF d \notin openFds THEN {"EBADF"}
    ELSE IF req \in SetCodes \cup {tcgets, tcsbrk} THEN {"nil", "EIO"}
    ELSE {"ENOTTY"}

\* SetAttr and SetAttr2: the ioctl, on the value attrs points to when it is issued
SetAttrIoctl(t) ==
    /\ thr[t].pc = "sa_ioctl"
    /\ LET req == IF thr[t].op = "SetAttr" THEN SetAttrReq(thr[t].arg)
                  ELSE SetAttr2Req(thr[t].arg)
       IN \E errno \in SetErrnos(req, thr[t].fd) :
          \E a \in IF thr[t].op = "SetAttr" THEN SetAttrArgs ELSE SetAttr2Args :
            /\ thr' = [thr EXCEPT ![t] = [@ EXCEPT !.pc = "ret",
                          !.stale = Stale(thr[t].h, thr[t].fd),
                          !.calls = <<CallIoctl(req, thr[t].fd, errno, a)>>,
                          !.res = wrapErr(thr[t].op, ErrOf(errno))]]
            /\ termios' = IF errno = "nil" /\ req \in SetCodes
                          THEN [termios EXCEPT ![thr[t].fd] = KernelSet(@, a)]
                          ELSE termios
    /\ UNCHANGED <<portVars, ReadTimeout, kernelVars, nOsClose, pairs, OpenMode, attrs, applied, restVars>>

\* Port.MakeRaw: the p.f.Load() of its p.GetAttr()
MakeRawLoad(t, h) ==
    /\ thr[t].pc = "idle"
    /\ h \in made
    /\ thr' = [thr EXCEPT ![t] = [Idle EXCEPT !.op = "MakeRaw", !.pc = "mr_get", !.h = h,
                                   !.fd = f[h], !.late = nOsClose[h] > 0]]
    /\ UNCHANGED <<portVars, ReadTimeout, kernelVars, nOsClose, pairs, OpenMode, termVars, restVars>>

AfterGet_Always(errno) == "mr_load"

\* attrs, err := p.GetAttr(); if err != nil { return wrapErr("", err) }
AfterGet(errno) == IF errno = "nil" THEN "mr_load" ELSE "ret"

\* Port.MakeRaw: the tcgets ioctl of its p.GetAttr() into a new Termios{}
MakeRawGet(t) ==
    /\ thr[t].pc = "mr_get"
    /\ \E errno \in Errnos(thr[t].fd) :
         LET a == IF errno = "nil" THEN LegacyOf(termios[thr[t].fd]) ELSE TermiosZero
         IN thr' = [thr EXCEPT ![t] = [@ EXCEPT !.pc = AfterGet(errno),
                       !.stale = Stale(thr[t].h, thr[t].fd),
                       !.calls = <<CallIoctl(tcgets, thr[t].fd, errno, a)>>,
                       !.got = a,
                       !.res = wrapErr("", wrapErr("GetAttr", ErrOf(errno)))]]
    /\ UNCHANGED <<portVars, ReadTimeout, kernelVars, nOsClose, pairs, OpenMode, termVars, restVars>>

\* Port.MakeRaw: attrs.MakeRaw(), and the p.f.Load() of its p.SetAttr(TCSANOW, attrs)
MakeRawSetLoad(t) ==
    /\ thr[t].pc = "mr_load"
    /\ thr' = [thr EXCEPT ![t] = [@ EXCEPT !.pc = "mr_set", !.got = MakeRaw(@),
                                   !.arg = TCSANOW, !.fd = f[thr[t].h]]]
    /\ UNCHANGED <<portVars, ReadTimeout, kernelVars, nOsClose, pairs, OpenMode, termVars, restVars>>

MakeRawArg_Current(got, k) == MakeRaw(LegacyOf(k))

\* the value p.SetAttr(TCSANOW, attrs) is passed: the local attrs that GetAttr
\* returned and attrs.MakeRaw() changed, not the attributes k the device has now
MakeRawArg(got, k) == got

\* Port.MakeRaw: the ioctl of its p.SetAttr(TCSANOW, attrs)
MakeRawSet(t) ==
    /\ thr[t].pc = "mr_set"
    /\ \E errno \in Errnos(thr[t].fd) :
         LET a == MakeRawArg(thr[t].got, termios[thr[t].fd])
         IN /\ thr' = [thr EXCEPT ![t] = [@ EXCEPT !.pc = "ret",
                          !.stale = @ \/ Stale(thr[t].h, thr[t].fd),
                          !.calls = Append(@, CallIoctl(SetAttrReq(thr[t].arg), thr[t].fd,
                                                        errno, a)),
                          !.res = wrapErr("MakeRaw", wrapErr("SetAttr", ErrOf(errno)))]]
            /\ termios' = IF errno = "nil"
                          THEN [termios EXCEPT ![thr[t].fd] = KernelSet(@, a)]
                          ELSE termios
    /\ UNCHANGED <<portVars, ReadTimeout, kernelVars, nOsClose, pairs, OpenMode, attrs, applied, restVars>>

\* ------------------------------------------------------------------ modem lines, Flush
\* A ModemLine is the set of the positions of its one bits, as a flag word is.
\* The values the callers pass, and the lines a device has:
LineArgs == {Bits(TIOCM_DTR), Bits(TIOCM_RTS), OrAll({TIOCM_LE, TIOCM_DTR})}

\* An ioctl on the modem lines as the goroutine issued it: the request code, the
\* descriptor, the errno, the lines behind the pointer, and the lines the device
\* had when the kernel took the call and when it returned.
CallLine(req, fd, errno, line, before, after) ==
    [call |-> "ioctl", fd |-> fd, r |-> errno, req |-> req, arg |-> line,
     before |-> before, after |-> after]

LineReq_SetAsBis(name) ==
    CASE name = "SetModemLines" -> Codes(build).tiocmbis
      [] name = "GetModemLines" -> Codes(build).tiocmget
      [] name = "EnableModemLines" -> Codes(build).tiocmbis
      [] name = "DisableModemLines" -> Codes(build).tiocmbic

LineReq_BisAsSet(name) ==
    CASE name = "SetModemLines" -> Codes(build).tiocmset
      [] name = "GetModemLines" -> Codes(build).tiocmget
      [] name = "EnableModemLines" -> Codes(build).tiocmset
      [] name = "DisableModemLines" -> Codes(build).tiocmbic

LineReq_BicAsBis(name) ==
    CASE name = "SetModemLines" -> Codes(build).tiocmset
      [] name = "GetModemLines" -> Codes(build).tiocmget
      [] name = "EnableModemLines" -> Codes(build).tiocmbis
      [] name = "DisableModemLines" -> Codes(build).tiocmbis

\* the request code each of the four methods passes to ioctl.Ioctl
LineReq(name) ==
    CASE name = "SetModemLines" -> Codes(build).tiocmset
      [] name = "GetModemLines" -> Codes(build).tiocmget
      [] name = "EnableModemLines" -> Codes(build).tiocmbis
      [] name = "DisableModemLines" -> Codes(build).tiocmbic

\* The kernel knows a modem-line request by the code of its own headers, which the
\* table of part_001 has: get status, set indicated bits, clear indicated bits, set
\* status. Any other code is ENOTTY on a terminal.
LineErrnos(req, d) ==
    IF d \notin openFds THEN {"EBADF"}
    ELSE IF req \in {tiocmget, tiocmbis, tiocmbic, tiocmset} THEN {"nil", "EIO"}
    ELSE {"ENOTTY"}

\* the lines of the device after the kernel took request req with lines x
LineResult(req, s, x) ==
    CASE req = tiocmbis -> s \cup x
      [] req = tiocmbic -> s \ x
      [] req = tiocmset -> x
      [] OTHER -> s

\* SetModemLines, EnableModemLines, DisableModemLines: the p.f.Load()
LineLoad(t, h, name, line) ==
    /\ thr[t].pc = "idle"
    /\ h \in made
    /\ thr' = [thr EXCEPT ![t] = [Idle EXCEPT !.op = name, !.pc = "ln_ioctl", !.h = h,
                                   !.line = line, !.fd = f[h],
                                   !.late = nOsClose[h] > 0]]
    /\ UNCHANGED <<portVars, ReadTimeout, kernelVars, nOsClose, pairs, OpenMode, termVars, restVars>>

\* GetModemLines: var line ModemLine, and the p.f.Load()
GetModemLinesLoad(t, h) ==
    /\ thr[t].pc = "idle"
    /\ h \in made
    /\ thr' = [thr EXCEPT ![t] = [Idle EXCEPT !.op = "GetModemLines", !.pc = "ln_ioctl",
                                   !.h = h, !.fd = f[h], !.late = nOsClose[h] > 0]]
    /\ UNCHANGED <<portVars, ReadTimeout, kernelVars, nOsClose, pairs, OpenMode, termVars, restVars>>

\* the ioctl of the four methods; GetModemLines returns line, that the kernel
\* wrote when the call succeeded, with wrapErr("GetModemLines", err)
LineIoctl(t) ==
    /\ thr[t].pc = "ln_ioctl"
    /\ LET d == thr[t].fd
           req == LineReq(thr[t].op)
           s == IF d \in Fds THEN mlines[d] ELSE {}
       IN \E errno \in LineErrnos(req, d) :
            LET after == IF errno = "nil" THEN LineResult(req, s, thr[t].line) ELSE s
            IN /\ thr' = [thr EXCEPT ![t] = [@ EXCEPT !.pc = "ret",
                             !.stale = Stale(thr[t].h, d),
                             !.calls = <<CallLine(req, d, errno, thr[t].line, s, after)>>,
                             !.line = IF errno = "nil" /\ req = tiocmget THEN s ELSE @,
                             !.res = wrapErr(thr[t].op, ErrOf(errno))]]
               /\ mlines' = IF d \in Fds THEN [mlines EXCEPT ![d] = after] ELSE mlines
    /\ UNCHANGED <<portVars, ReadTimeout, kernelVars, nOsClose, pairs, OpenMode, termVars,
                   build, err>>

\* An ioctl with an integer argument as the goroutine issued it.
CallArg(req, fd, errno, arg) == [call |-> "ioctl", fd |-> fd, r |-> errno, req |-> req, arg |-> arg]

\* Flush(queue): the p.f.Load()
FlushLoad(t, h, queue) ==
    /\ thr[t].pc = "idle"
    /\ h \in made
    /\ thr' = [thr EXCEPT ![t] = [Idle EXCEPT !.op = "Flush", !.pc = "fl_ioctl", !.h = h,
                                   !.arg = queue, !.fd = f[h], !.late = nOsClose[h] > 0]]
    /\ UNCHANGED <<portVars, ReadTimeout, kernelVars, nOsClose, pairs, OpenMode, termVars, restVars>>

FlushArg_Input(queue) == TCIFLUSH

\* uintptr(queue)
FlushArg(queue) == queue

\* Flush: ioctl.Ioctl(fd, tcflsh, uintptr(queue)), wrapped as "Flush"
FlushIoctl(t) ==
    /\ thr[t].pc = "fl_ioctl"
    /\ \E errno \in Errnos(thr[t].fd) :
         thr' = [thr EXCEPT ![t] = [@ EXCEPT !.pc = "ret",
                       !.stale = Stale(thr[t].h, thr[t].fd),
                       !.calls = <<CallArg(Codes(build).tcflsh, thr[t].fd, errno,
                                           FlushArg(thr[t].arg))>>,
                       !.res = wrapErr("Flush", ErrOf(errno))]]
    /\ UNCHANGED <<portVars, ReadTimeout, kernelVars, nOsClose, pairs, OpenMode, termVars, restVars>>

\* ------------------------------------------------------------------ methods of the attribute values
\* The caller applies a method to the value it holds, MaxApplied times at most.
Applied(name, args) ==
    [op |-> name, args |-> args, before |-> attrs, k |-> applied.k + 1]

ApplyMakeRaw ==
    /\ applied.k < MaxApplied
    /\ attrs' = MakeRaw(attrs)
    /\ applied' = Applied("MakeRaw", <<>>)
    /\ UNCHANGED <<portVars, ReadTimeout, kernelVars, thr, nOsClose, pairs, OpenMode, termios, restVars>>

\* The value goes to the kernel as the memory SetAttr or SetAttr2 points to, and
\* comes back as the memory GetAttr or GetAttr2 points to, the kernel keeping the
\* bytes as they are.
ApplyCodec ==
    /\ applied.k < MaxApplied
    /\ attrs' = IF IsTermios2(attrs) THEN BytesTermios2(PointerBytes(attrs))
                                     ELSE BytesTermios(PointerBytes(attrs))
    /\ applied' = Applied("Codec", <<>>)
    /\ UNCHANGED <<portVars, ReadTimeout, kernelVars, thr, nOsClose, pairs, OpenMode, termios, restVars>>

ApplySetSpeed(speed) ==
    /\ applied.k < MaxApplied
    /\ attrs' = SetSpeed(attrs, speed)
    /\ applied' = Applied("SetSpeed", <<speed>>)
    /\ UNCHANGED <<portVars, ReadTimeout, kernelVars, thr, nOsClose, pairs, OpenMode, termios, restVars>>

\* SetCustomIOSpeed and SetCustomSpeed are methods of *Termios2 only
ApplySetCustomIOSpeed(iSpeed, oSpeed) ==
    /\ applied.k < MaxApplied
    /\ IsTermios2(attrs)
    /\ attrs' = SetCustomIOSpeed(attrs, iSpeed, oSpeed)
    /\ applied' = Applied("SetCustomIOSpeed", <<iSpeed, oSpeed>>)
    /\ UNCHANGED <<portVars, ReadTimeout, kernelVars, thr, nOsClose, pairs, OpenMode, termios, restVars>>

ApplySetCustomSpeed(speed) ==
    /\ applied.k < MaxApplied
    /\ IsTermios2(attrs)
    /\ attrs' = SetCustomSpeed(attrs, speed)
    /\ applied' = Applied("SetCustomSpeed", <<speed>>)
    /\ UNCHANGED <<portVars, ReadTimeout, kernelVars, thr, nOsClose, pairs, OpenMode, termios, restVars>>

\* ------------------------------------------------------------------ OpenPTY
\* The master and the slave are locals of OpenPTY until it returns them: no
\* other goroutine can name them, the kernel's descriptor table is all they share.

\* the step after GetPTPeer: if termp != nil {SetAttr}; if winp != nil {SetWinSize}
AfterPeer_AttrAlways(termp, winp) == "pty_attr"

AfterPeer(termp, winp) ==
    IF termp THEN "pty_attr" ELSE IF winp THEN "pty_win" ELSE "pty_ok"

\* the step after SetAttr succeeded
AfterAttr(winp) == IF winp THEN "pty_win" ELSE "pty_ok"

UnlockFailCleanup_None == {}

\* what each failure branch closes before it returns nil, nil, err
UnlockFailCleanup == {"master"}

PeerFailCleanup_None == {}

PeerFailCleanup == {"master"}

AttrFailCleanup == {"master"}

WinFailCleanup == {"master"}

PeerFd_Master(masterFd, d) == masterFd

\* GetPTPeer: NewPort(int(fd), nil) wraps the descriptor the ioctl returned
PeerFd(masterFd, d) == d

\* master, err := Open("/dev/ptmx", nil): failure returns nil, nil, err
PtyOpenFail(t, termp, winp) ==
    /\ thr[t].pc = "idle"
    /\ thr' = [thr EXCEPT ![t] = [Idle EXCEPT !.op = "OpenPTY", !.pc = "ret",
                                   !.termp = termp, !.winp = winp,
                                   !.calls = <<Call("open", Invalid, "ENOENT")>>,
                                   !.res = wrapErr("Open", <<"ENOENT">>)]]
    /\ UNCHANGED <<portVars, ReadTimeout, kernelVars, nOsClose, pairs, OpenMode, termVars, restVars>>

\* A master just opened has its slave locked.
PtyOpenOk(t, termp, winp) ==
    /\ thr[t].pc = "idle"
    /\ nextPort + 1 \in Ports
    /\ Fds \ openFds # {}
    /\ LET m == nextPort
           d == LowestFree
       IN /\ openFds' = openFds \cup {d}
          /\ locked' = locked \cup {d}
          /\ f' = [f EXCEPT ![m] = d]
          /\ options' = [options EXCEPT ![m] = m]
          /\ ReadTimeout' = [ReadTimeout EXCEPT ![m] = DefaultReadTimeout]
          /\ nextPort' = m + 2
          /\ thr' = [thr EXCEPT ![t] = [Idle EXCEPT !.op = "OpenPTY", !.pc = "pty_unlock",
                                         !.h = m, !.s = m + 1, !.termp = termp,
                                         !.winp = winp, !.owned = {d},
                                         !.calls = <<Call("open", d, "nil")>>]]
    /\ UNCHANGED <<made, nOsClose, pairs, OpenMode, termVars, restVars>>

\* A failing step: remember the error, and go to the branch's cleanup.
PtyFailed(t, call, msg, cleanup) ==
    [thr[t] EXCEPT !.pc = "pty_abort", !.calls = Append(@, call),
                   !.res = wrapErr(msg, ErrOf(call.r)), !.cleanup = cleanup]

\* if err := master.SetLockPT(false); err != nil { master.Close(); return nil, nil, err }
PtyUnlock(t) ==
    /\ thr[t].pc = "pty_unlock"
    /\ LET d == f[thr[t].h]
       IN \E errno \in Errnos(d) :
            IF errno = "nil"
            THEN /\ locked' = locked \ {d}
                 /\ thr' = [thr EXCEPT ![t] = [@ EXCEPT !.pc = "pty_peer",
                               !.calls = Append(@, Call("unlock", d, errno))]]
            ELSE /\ thr' = [thr EXCEPT ![t] =
                               PtyFailed(t, Call("unlock", d, errno), "SetLockPT",
                                         UnlockFailCleanup)]
                 /\ UNCHANGED locked
    /\ UNCHANGED <<portVars, ReadTimeout, openFds, nOsClose, pairs, OpenMode, termVars, restVars>>

\* TIOCGPTPEER fails on a master that is not open, whose slave is locked, or when
\* no descriptor is left, and may fail on any other.
PeerErrnos(d) ==
    IF d \notin openFds THEN {"EBADF"}
    ELSE IF d \in locked THEN {"EIO"}
    ELSE IF Fds \ openFds = {} THEN {"EMFILE"}
    ELSE {"nil", "EIO"}

\* slave, err := master.GetPTPeer(0); if err != nil { master.Close(); return nil, nil, err }
PtyPeer(t) ==
    /\ thr[t].pc = "pty_peer"
    /\ LET d == f[thr[t].h]
       IN \E errno \in PeerErrnos(d) :
            IF errno = "nil"
            THEN LET d2 == LowestFree
                     sl == thr[t].s
                 IN /\ openFds' = openFds \cup {d2}
                    /\ f' = [f EXCEPT ![sl] = PeerFd(d, d2)]
                    /\ options' = [options EXCEPT ![sl] = sl]
                    /\ ReadTimeout' = [ReadTimeout EXCEPT ![sl] = DefaultReadTimeout]
                    /\ thr' = [thr EXCEPT ![t] = [@ EXCEPT
                                  !.pc = AfterPeer(thr[t].termp, thr[t].winp),
                                  !.owned = @ \cup {d2},
                                  !.calls = Append(@, Call("peer", d, errno))]]
            ELSE /\ thr' = [thr EXCEPT ![t] =
                               PtyFailed(t, Call("peer", d, errno), "GetPTPeer",
                                         PeerFailCleanup)]
                 /\ UNCHANGED <<openFds, f, options, ReadTimeout>>
    /\ UNCHANGED <<made, nextPort, locked, nOsClose, pairs, OpenMode, termVars, restVars>>

\* if termp != nil { if err := slave.SetAttr(TCSANOW, termp); err != nil {...} }
PtyAttr(t) ==
    /\ thr[t].pc = "pty_attr"
    /\ LET d == f[thr[t].s]
       IN \E errno \in Errnos(d) :
            thr' = [thr EXCEPT ![t] =
                      IF errno = "nil"
                      THEN [@ EXCEPT !.pc = AfterAttr(thr[t].winp),
                                     !.calls = Append(@, Call("setattr", d, errno))]
                      ELSE PtyFailed(t, Call("setattr", d, errno), "SetAttr",
                                     AttrFailCleanup)]
    /\ UNCHANGED <<portVars, ReadTimeout, kernelVars, nOsClose, pairs, OpenMode, termVars, restVars>>

\* if winp != nil { if err := slave.SetWinSize(winp); err != nil {...} }
PtyWin(t) ==
    /\ thr[t].pc = "pty_win"
    /\ LET d == f[thr[t].s]
       IN \E errno \in Errnos(d) :
            thr' = [thr EXCEPT ![t] =
                      IF errno = "nil"
                      THEN [@ EXCEPT !.pc = "pty_ok",
                                     !.calls = Append(@, Call("setwinsz", d, errno))]
                      ELSE PtyFailed(t, Call("setwinsz", d, errno), "SetWinSize",
                                     WinFailCleanup)]
    /\ UNCHANGED <<portVars, ReadTimeout, kernelVars, nOsClose, pairs, OpenMode, termVars, restVars>>

\* master.Close(); return nil, nil, err: the Close of Port, whose result is dropped
PtyAbort(t) ==
    /\ thr[t].pc = "pty_abort"
    /\ LET m == thr[t].h
           x == f[m]
       IN IF "master" \in thr[t].cleanup
          THEN /\ f' = [f EXCEPT ![m] = CloseStore(x)]
               /\ IF CloseWon(x)
                  THEN \E errno \in CloseErrnos(x) :
                         /\ openFds' = openFds \ {x}
                         /\ locked' = locked \ {x}
                         /\ nOsClose' = [nOsClose EXCEPT ![m] = @ + 1]
                         /\ thr' = [thr EXCEPT ![t] = [@ EXCEPT !.pc = "ret",
                                       !.owned = @ \ {x},
                                       !.calls = Append(@, Call("close", x, errno))]]
                  ELSE /\ thr' = [thr EXCEPT ![t] = [@ EXCEPT !.pc = "ret"]]
                       /\ UNCHANGED <<kernelVars, nOsClose>>
          ELSE /\ thr' = [thr EXCEPT ![t] = [@ EXCEPT !.pc = "ret"]]
               /\ UNCHANGED <<f, kernelVars, nOsClose>>
    /\ UNCHANGED <<made, options, nextPort, ReadTimeout, pairs, OpenMode, termVars, restVars>>

\* return master, slave, nil
PtyReturn(t) ==
    /\ thr[t].pc = "pty_ok"
    /\ made' = made \cup {thr[t].h, thr[t].s}
    /\ pairs' = pairs \cup {<<thr[t].h, thr[t].s>>}
    /\ thr' = [thr EXCEPT ![t] = [@ EXCEPT !.pc = "ret", !.rets = {thr[t].h, thr[t].s}]]
    /\ UNCHANGED <<f, options, nextPort, ReadTimeout, kernelVars, nOsClose, OpenMode, termVars, restVars>>

\* ------------------------------------------------------------------ specifications
\* Goroutines opening ports and reading, writing, controlling and closing them.
Next ==
    \/ \E t \in Threads, nilOpts \in BOOLEAN : OpenFail(t, nilOpts)
    \/ \E t \in Threads, nilOpts \in BOOLEAN : OpenOk(t, nilOpts)
    \/ \E t \in Threads : Return(t)
    \/ \E t \in Threads, h \in Ports : CloseSwap(t, h)
    \/ \E t \in Threads : CloseSyscall(t)
    \/ \E t \in Threads, h \in Ports : WriteLoad(t, h)
    \/ \E t \in Threads : WriteSyscall(t)
    \/ \E t \in Threads, h \in Ports : ReadCheck(t, h)
    \/ \E t \in Threads : ReadArg(t)
    \/ \E t \in Threads : PollLoad(t)
    \/ \E t \in Threads : PollCall(t)
    \/ \E t \in Threads : ReadLoad(t)
    \/ \E t \in Threads : ReadSyscall(t)
    \/ \E t \in Threads, h \in Ports, name \in CtlOps : CtlLoad(t, h, name)
    \/ \E t \in Threads : CtlSyscall(t)

Spec == Init /\ [][Next]_vars

\* Goroutines reading open ports whose read timeout is being set.
NextRead ==
    \/ \E t \in Threads, nilOpts \in BOOLEAN : OpenOk(t, nilOpts)
    \/ \E v \in Timeouts : OptionsSetReadTimeout(v)
    \/ \E h \in Ports, v \in Timeouts : SetReadTimeout(h, v)
    \/ \E t \in Threads : Return(t)
    \/ \E t \in Threads, h \in Ports : ReadCheck(t, h)
    \/ \E t \in Threads : ReadArg(t)
    \/ \E t \in Threads : PollLoad(t)
    \/ \E t \in Threads : PollCall(t)
    \/ \E t \in Threads : ReadLoad(t)
    \/ \E t \in Threads : ReadSyscall(t)

SpecRead == InitDefault /\ [][NextRead]_vars

\* Goroutines allocating pseudo-terminals and closing the ports they got.
NextPTY ==
    \/ \E t \in Threads, termp \in BOOLEAN, winp \in BOOLEAN : PtyOpenFail(t, termp, winp)
    \/ \E t \in Threads, termp \in BOOLEAN, winp \in BOOLEAN : PtyOpenOk(t, termp, winp)
    \/ \E t \in Threads : PtyUnlock(t)
    \/ \E t \in Threads : PtyPeer(t)
    \/ \E t \in Threads : PtyAttr(t)
    \/ \E t \in Threads : PtyWin(t)
    \/ \E t \in Threads : PtyAbort(t)
    \/ \E t \in Threads : PtyReturn(t)
    \/ \E t \in Threads : Return(t)
    \/ \E t \in Threads, h \in Ports : CloseSwap(t, h)
    \/ \E t \in Threads : CloseSyscall(t)
    \/ \E t \in Threads, h \in Ports, name \in CtlOps : CtlLoad(t, h, name)
    \/ \E t \in Threads : CtlSyscall(t)

SpecPTY == Init /\ [][NextPTY]_vars

\* Goroutines building ports with Open and NewPort, from Options whose mode the
\* caller sets, and closing them.
NextOpen ==
    \/ \E t \in Threads, nilOpts \in BOOLEAN : OpenFail(t, nilOpts)
    \/ \E t \in Threads, nilOpts \in BOOLEAN : OpenOk(t, nilOpts)
    \/ \E m \in OpenModes : OptionsSetOpenMode(m)
    \/ ExternOpen
    \/ \E t \in Threads, d \in Fds, nilOpts \in BOOLEAN : NewPort(t, d, nilOpts)
    \/ \E t \in Threads : Return(t)
    \/ \E t \in Threads, h \in Ports : CloseSwap(t, h)
    \/ \E t \in Threads : CloseSyscall(t)

SpecOpen == InitDefault /\ [][NextOpen]_vars

\* Goroutines setting the attributes of open ports and making them raw.
NextTerm ==
    \/ \E t \in Threads : OpenOk(t, TRUE)
    \/ \E t \in Threads, h \in Ports, name \in {"SetAttr", "SetAttr2"}, when \in Actions :
          SetAttrLoad(t, h, name, when)
    \/ \E t \in Threads : SetAttrIoctl(t)
    \/ \E t \in Threads, h \in Ports : MakeRawLoad(t, h)
    \/ \E t \in Threads : MakeRawGet(t)
    \/ \E t \in Threads : MakeRawSetLoad(t)
    \/ \E t \in Threads : MakeRawSet(t)
    \/ \E t \in Threads : Return(t)

SpecTerm == InitDefault /\ [][NextTerm]_vars

\* A caller applying MakeRaw and the speed setters to an attributes value.
NextAttrs ==
    \/ ApplyMakeRaw
    \/ ApplyCodec
    \/ \E speed \in SpeedCodes : ApplySetSpeed(speed)
    \/ \E iSpeed \in CustomSpeeds, oSpeed \in CustomSpeeds :
          ApplySetCustomIOSpeed(iSpeed, oSpeed)
    \/ \E speed \in CustomSpeeds : ApplySetCustomSpeed(speed)

SpecAttrs == InitAttrs /\ [][NextAttrs]_vars

FdValue_Open(x) == IF x = Invalid THEN 1 ELSE x

\* p.f.Load().(int): the value in the slot
FdValue(x) == x

\* Fd: return p.f.Load().(int)
PortFd(t, h) ==
    /\ thr[t].pc = "idle"
    /\ h \in made
    /\ thr' = [thr EXCEPT ![t] = [Idle EXCEPT !.op = "Fd", !.pc = "ret", !.h = h,
                                   !.fd = FdValue(f[h])]]
    /\ UNCHANGED <<portVars, ReadTimeout, kernelVars, nOsClose, pairs, OpenMode, termVars, restVars>>

\* Goroutines opening Ports, closing them and asking for their descriptor.
NextFd ==
    \/ \E t \in Threads : OpenOk(t, TRUE)
    \/ \E t \in Threads, h \in Ports : CloseSwap(t, h)
    \/ \E t \in Threads : CloseSyscall(t)
    \/ \E t \in Threads, h \in Ports : PortFd(t, h)
    \/ \E t \in Threads : Return(t)

SpecFd == InitDefault /\ [][NextFd]_vars

\* Port.GetPTPeer called by itself: the ioctl on the master's descriptor, and
\* NewPort(int(fd), nil) on the descriptor it returned; an error returns
\* nil, wrapErr("GetPTPeer", err)
GetPTPeer(t, h) ==
    /\ thr[t].pc = "idle"
    /\ h \in made
    /\ nextPort \in Ports
    /\ LET d == f[h]
       IN \E errno \in PeerErrnos(d) :
            IF errno = "nil"
            THEN LET d2 == LowestFree
                     sl == nextPort
                 IN /\ openFds' = openFds \cup {d2}
                    /\ f' = [f EXCEPT ![sl] = PeerFd(d, d2)]
                    /\ options' = [options EXCEPT ![sl] = sl]
                    /\ ReadTimeout' = [ReadTimeout EXCEPT ![sl] = DefaultReadTimeout]
                    /\ made' = made \cup {sl}
                    /\ nextPort' = sl + 1
                    /\ thr' = [thr EXCEPT ![t] = [Idle EXCEPT !.op = "GetPTPeer",
                                  !.pc = "ret", !.h = h, !.s = sl, !.fd = d,
                                  !.calls = <<Call("peer", d, errno)>>]]
            ELSE /\ thr' = [thr EXCEPT ![t] = [Idle EXCEPT !.op = "GetPTPeer",
                                  !.pc = "ret", !.h = h, !.fd = d,
                                  !.calls = <<Call("peer", d, errno)>>,
                                  !.res = wrapErr("GetPTPeer", ErrOf(errno))]]
                 /\ UNCHANGED <<openFds, portVars, ReadTimeout>>
    /\ UNCHANGED <<locked, nOsClose, pairs, OpenMode, termVars, restVars>>

\* Ports made by Open, NewPort, GetPTPeer on the first Port and OpenPTY(nil, nil),
\* with the caller's Options or with none; SetReadTimeout is called on the first
\* Port; every Port is read.
NextDefaults ==
    \/ \E t \in Threads, nilOpts \in BOOLEAN : OpenOk(t, nilOpts)
    \/ \E t \in Threads, d \in Fds, nilOpts \in BOOLEAN : NewPort(t, d, nilOpts)
    \/ \E t \in Threads : GetPTPeer(t, 1)
    \/ \E t \in Threads : PtyOpenFail(t, FALSE, FALSE)
    \/ \E t \in Threads : PtyOpenOk(t, FALSE, FALSE)
    \/ \E t \in Threads : PtyUnlock(t)
    \/ \E t \in Threads : PtyPeer(t)
    \/ \E t \in Threads : PtyAbort(t)
    \/ \E t \in Threads : PtyReturn(t)
    \/ \E v \in Timeouts : SetReadTimeout(1, v)
    \/ \E t \in Threads : Return(t)
    \/ \E t \in Threads, h \in Ports : ReadCheck(t, h)
    \/ \E t \in Threads : ReadArg(t)
    \/ \E t \in Threads : PollLoad(t)
    \/ \E t \in Threads : PollCall(t)
    \/ \E t \in Threads : ReadLoad(t)
    \/ \E t \in Threads : ReadSyscall(t)

SpecDefaults == InitDefault /\ [][NextDefaults]_vars

\* Action is an int: the three constants, and values that are none of them
ActionValues == Actions \cup {-1, 3, 7}

\* Goroutines calling SetAttr and SetAttr2 with any Action.
NextAction ==
    \/ \E t \in Threads : OpenOk(t, TRUE)
    \/ \E t \in Threads, name \in {"SetAttr", "SetAttr2"}, when \in ActionValues :
          SetAttrLoad(t, 1, name, when)
    \/ \E t \in Threads : SetAttrIoctl(t)
    \/ \E t \in Threads : Return(t)

SpecAction == InitDefault /\ [][NextAction]_vars

\* Two Ports, made with the caller's Options or with none; SetReadTimeout is
\* called on the first and Read on the second.
NextShare ==
    \/ \E t \in Threads, nilOpts \in BOOLEAN : OpenOk(t, nilOpts)
    \/ \E v \in Timeouts : SetReadTimeout(1, v)
    \/ \E t \in Threads : Return(t)
    \/ \E t \in Threads : ReadCheck(t, 2)
    \/ \E t \in Threads : ReadArg(t)
    \/ \E t \in Threads : PollLoad(t)
    \/ \E t \in Threads : PollCall(t)
    \/ \E t \in Threads : ReadLoad(t)
    \/ \E t \in Threads : ReadSyscall(t)

SpecShare == InitDefault /\ [][NextShare]_vars

\* wrapErr applied to the messages the package passes it and to causes: nil, an
\* errno, ErrClosed.
WrapNames == {"", "Open", "Read", "ReadTimeout", "Write", "Close", "MakeRaw", "GetAttr"}
Causes == {NoErr, <<"EIO">>, <<"EBADF">>, ErrClosed}

ApplyWrapErr(name) ==
    /\ applied.k < MaxApplied
    /\ err' = wrapErr(name, err)
    /\ applied' = [op |-> "wrapErr", args |-> <<name, err>>, before |-> attrs,
                   k |-> applied.k + 1]
    /\ UNCHANGED <<portVars, ReadTimeout, kernelVars, thr, nOsClose, pairs, OpenMode,
                   termios, attrs, mlines, build>>

NextErr == \E name \in WrapNames : ApplyWrapErr(name)

InitErr ==
    /\ InitPorts(DefaultReadTimeout)
    /\ build = "part_001"
    /\ err \in Causes
    /\ attrs = TermiosZero
    /\ applied = NoneApplied

SpecErr == InitErr /\ [][NextErr]_vars

\* Goroutines reading, changing and flushing the first port opened.
NextLines ==
    \/ \E t \in Threads : OpenOk(t, TRUE)
    \/ \E t \in Threads, line \in LineArgs,
           name \in {"SetModemLines", "EnableModemLines", "DisableModemLines"} :
          LineLoad(t, 1, name, line)
    \/ \E t \in Threads : GetModemLinesLoad(t, 1)
    \/ \E t \in Threads : LineIoctl(t)
    \/ \E t \in Threads, queue \in Queues : FlushLoad(t, 1, queue)
    \/ \E t \in Threads : FlushIoctl(t)
    \/ \E t \in Threads : Return(t)

\* The package is built with one of the three files of request codes.
InitLines ==
    /\ InitPorts(DefaultReadTimeout)
    /\ build \in Builds
    /\ err = NoErr
    /\ attrs = TermiosZero
    /\ applied = NoneApplied

SpecLines == InitLines /\ [][NextLines]_vars

\* ------------------------------------------------------------------ properties
InClose(h) == {t \in Threads : thr[t].pc = "close" /\ thr[t].h = h}

ClosedBy(t, h) == thr[t].op = "Close" /\ thr[t].pc = "ret" /\ thr[t].h = h

\* C1: of the callers of Close() on one open Port, in any interleaving, exactly one
\* issues the OS close and returns its (wrapped) result, every other one returns
\* ErrClosed without an OS call, and the Port's descriptor is passed to the OS
\* close exactly once.
C1_ExactlyOneCloses ==
    /\ \A h \in Ports : nOsClose[h] <= 1
    /\ \A h \in made :
         f[h] = Invalid => nOsClose[h] + Cardinality(InClose(h)) = 1
    /\ \A t \in Threads, h \in made :
         ClosedBy(t, h) =>
            \/ thr[t].res = ErrClosed /\ thr[t].calls = <<>>
            \/ /\ Len(thr[t].calls) = 1
               /\ thr[t].calls[1].call = "close"
               /\ thr[t].calls[1].fd = thr[t].fd
               /\ thr[t].calls[1].fd \in Fds
               /\ thr[t].res = wrapErr("Close", ErrOf(thr[t].calls[1].r))
               /\ thr[t].res # ErrClosed

\* Two callers of Close() on one Port have both returned: one closed it, one got ErrClosed.
C1_Witness ==
    \E t, u \in Threads, h \in made :
        /\ t # u
        /\ ClosedBy(t, h) /\ thr[t].res = NoErr /\ Len(thr[t].calls) = 1
        /\ ClosedBy(u, h) /\ thr[u].res = ErrClosed
        /\ nOsClose[h] = 1

PortOps == {"Read", "Write"} \cup CtlOps

\* C2: a Read, Write, GetAttr or other control call begun after Close() has
\* succeeded returns ErrClosed and issues no OS call.
C2_ClosedFailsFast ==
    \A t \in Threads :
        thr[t].pc = "ret" /\ thr[t].op \in PortOps /\ thr[t].late =>
            thr[t].res = ErrClosed /\ thr[t].calls = <<>>

\* C3: no read, write, poll or ioctl is issued on a descriptor value after Close()
\* has passed that value to the OS close.
C3_NoUseAfterClose == \A t \in Threads : ~thr[t].stale

\* C4: the descriptor slot of a Port is changed only by Close(), and only from a
\* descriptor to the sentinel -1; no step stores a descriptor over the sentinel.
C4_SlotOnlyClosed ==
    [][\A h \in made :
          f'[h] # f[h] =>
             /\ f[h] # Invalid
             /\ f'[h] = Invalid
             /\ \E t \in Threads :
                  /\ thr[t].pc = "idle"
                  /\ thr'[t].op = "Close" /\ thr'[t].h = h /\ thr'[t].fd = f[h]]_vars

\* A Port is closed, and a Write begun after that has run on it: the slot still
\* holds the sentinel.
C4_Witness ==
    \E t \in Threads :
        /\ thr[t].op = "Write" /\ thr[t].pc = "ret" /\ thr[t].late
        /\ f[thr[t].h] = Invalid
        /\ nOsClose[thr[t].h] = 1

InPTY(t) == thr[t].op = "OpenPTY"

PtyDone(t) == InPTY(t) /\ thr[t].pc = "ret"

\* OpenPTY's i-th OS call was `name`, and it failed.
FailedAt(t, i, name) ==
    /\ Len(thr[t].calls) >= i
    /\ thr[t].calls[i].call = name
    /\ thr[t].calls[i].r # "nil"

\* No call of the given names is among OpenPTY's OS calls.
NeverCalled(t, names) ==
    \A i \in 1..Len(thr[t].calls) : thr[t].calls[i].call \notin names

\* OpenPTY closed the master after its i-th call, as its last call, and returned
\* nil, nil and the error of that call.
ClosedMasterAndFailed(t, i, msg) ==
    /\ Len(thr[t].calls) = i + 1
    /\ thr[t].calls[i + 1].call = "close"
    /\ thr[t].calls[i + 1].fd = thr[t].calls[1].fd
    /\ f[thr[t].h] = Invalid
    /\ nOsClose[thr[t].h] = 1
    /\ thr[t].calls[1].fd \notin thr[t].owned
    /\ thr[t].res = <<msg, thr[t].calls[i].r>>
    /\ thr[t].rets = {}
    /\ thr[t].h \notin made /\ thr[t].s \notin made

\* C5: when SetLockPT(false) fails, OpenPTY closes the master before it returns,
\* returns the error, never calls GetPTPeer, and returns neither handle.
C5_UnlockFailure ==
    \A t \in Threads :
        PtyDone(t) /\ FailedAt(t, 2, "unlock") =>
            /\ ClosedMasterAndFailed(t, 2, "SetLockPT")
            /\ NeverCalled(t, {"peer", "setattr", "setwinsz"})
            /\ thr[t].owned = {}

C5_Witness == \E t \in Threads : PtyDone(t) /\ FailedAt(t, 2, "unlock")

\* C6: when SetAttr or SetWinSize on the slave fails, the master and the slave
\* descriptor are both closed before OpenPTY returns: no descriptor opened during
\* the call is still open.
C6_ConfigFailureClosesBoth ==
    \A t \in Threads :
        /\ PtyDone(t)
        /\ \E i \in 1..Len(thr[t].calls) :
              FailedAt(t, i, "setattr") \/ FailedAt(t, i, "setwinsz")
        => thr[t].owned = {}

\* C7: when GetPTPeer fails, OpenPTY closes the master before it returns, returns
\* the error, and returns no handle.
C7_PeerFailure ==
    \A t \in Threads :
        PtyDone(t) /\ FailedAt(t, 3, "peer") =>
            /\ ClosedMasterAndFailed(t, 3, "GetPTPeer")
            /\ thr[t].owned = {}

C7_Witness == \E t \in Threads : PtyDone(t) /\ FailedAt(t, 3, "peer")

\* The steps OpenPTY is to take, in order, for the arguments it was given.
PtySteps(termp, winp) ==
    <<"open", "unlock", "peer">> \o (IF termp THEN <<"setattr">> ELSE <<>>)
                                 \o (IF winp THEN <<"setwinsz">> ELSE <<>>)

IsStep(c) == c.call # "close"

\* C8: OpenPTY issues open, unlock, fetch peer, set attributes, set window size in
\* that order, the attribute call only with attributes supplied and the window
\* size call only with a window size supplied, and no step after a failed one.
C8_StepOrder ==
    \A t \in Threads :
        InPTY(t) =>
            LET steps == SelectSeq(thr[t].calls, IsStep)
                want == PtySteps(thr[t].termp, thr[t].winp)
            IN /\ Len(steps) <= Len(want)
               /\ \A i \in 1..Len(steps) : steps[i].call = want[i]
               /\ \A i \in 1..(Len(steps) - 1) : steps[i].r = "nil"
               /\ \A i \in 1..(Len(thr[t].calls) - 1) : IsStep(thr[t].calls[i])
               /\ thr[t].pc = "ret" /\ thr[t].res = NoErr =>
                     /\ Len(steps) = Len(want)
                     /\ steps[Len(steps)].r = "nil"

\* OpenPTY with attributes and a window size has issued all five steps and returned.
C8_Witness ==
    \E t \in Threads :
        /\ PtyDone(t) /\ thr[t].res = NoErr
        /\ thr[t].termp /\ thr[t].winp
        /\ Len(thr[t].calls) = 5

Other(p, h) == IF p[1] = h THEN p[2] ELSE p[1]

\* C9: the master and the slave OpenPTY returns are both open on different
\* descriptors, and closing one issues the OS close of its own descriptor only:
\* the other stays open on a descriptor the kernel still has.
C9_IndependentPair ==
    /\ \A t \in Threads :
         InPTY(t) /\ thr[t].pc = "pty_ok" =>
            /\ f[thr[t].h] \in openFds
            /\ f[thr[t].s] \in openFds
            /\ f[thr[t].h] # f[thr[t].s]
    /\ \A p \in pairs :
         /\ \A h \in {p[1], p[2]} : f[h] # Invalid => f[h] \in openFds
         /\ f[p[1]] # Invalid => f[p[1]] # f[p[2]]
         /\ \A t \in Threads, h \in {p[1], p[2]} :
              ClosedBy(t, h) /\ thr[t].calls # <<>> =>
                 thr[t].calls[1].fd # f[Other(p, h)]

\* The master of a pair is closed, and a control call begun after that on the
\* slave has succeeded.
C9_Witness ==
    \E p \in pairs, t \in Threads :
        /\ nOsClose[p[1]] = 1 /\ f[p[1]] = Invalid
        /\ thr[t].op \in CtlOps /\ thr[t].pc = "ret" /\ thr[t].h = p[2]
        /\ thr[t].res = NoErr
        /\ f[p[2]] \in openFds

InTimedRead(t) ==
    \/ thr[t].pc \in {"rt_arg", "rt_pload", "rt_poll", "rt_rload", "rt_read"}
    \/ thr[t].pc = "ret" /\ thr[t].calls # <<>> /\ thr[t].calls[1].call = "poll"

\* C10: Read waits for readability, with the configured timeout, exactly when the
\* configured timeout is >= 0; with a negative timeout its only OS call is the
\* read, and with a timeout >= 0 the read is issued only after the wait succeeded.
C10_WaitIffTimeout ==
    \A t \in Threads :
        thr[t].op = "Read" =>
            /\ InTimedRead(t) <=> thr[t].tmo >= 0
            /\ thr[t].pc \in {"rt_poll", "rt_rload", "rt_read"} /\ ~thr[t].raced =>
                  thr[t].arg = thr[t].tmo
            /\ thr[t].pc \in {"rt_rload", "rt_read"} =>
                  /\ Len(thr[t].calls) = 1
                  /\ thr[t].calls[1].call = "poll"
                  /\ thr[t].calls[1].r = "nil"
            /\ thr[t].pc = "ret" =>
                  IF thr[t].tmo >= 0
                  THEN /\ thr[t].calls[1].call = "poll"
                       /\ Len(thr[t].calls) = 2 =>
                             thr[t].calls[1].r = "nil" /\ thr[t].calls[2].call = "read"
                       /\ Len(thr[t].calls) = 1 => thr[t].calls[1].r # "nil"
                       /\ Len(thr[t].calls) <= 2
                  ELSE /\ Len(thr[t].calls) = 1
                       /\ thr[t].calls[1].call = "read"

\* A Read with timeout 0 has waited and then read; the timeout was not touched meanwhile.
C10_Witness ==
    \E t \in Threads :
        /\ thr[t].op = "Read" /\ thr[t].pc = "ret"
        /\ thr[t].tmo = 0 /\ ~thr[t].raced /\ thr[t].arg = 0
        /\ Len(thr[t].calls) = 2

\* ------------------------------------------------------------------ C11, C12
\* The wait of a Read that has returned failed or timed out.
WaitFailed(t) ==
    /\ thr[t].op = "Read" /\ thr[t].pc = "ret"
    /\ thr[t].calls # <<>>
    /\ thr[t].calls[1].call = "poll"
    /\ thr[t].calls[1].r # "nil"

\* C11: when the wait for readability of a Read times out or fails, Read returns
\* n = 0 together with that error, and no OS read call was issued.
C11_WaitFailureReturnsZero ==
    \A t \in Threads :
        WaitFailed(t) =>
            /\ thr[t].n = 0
            /\ Unwrap(thr[t].res) = <<thr[t].calls[1].r>>
            /\ \A i \in 1..Len(thr[t].calls) : thr[t].calls[i].call # "read"

\* A Read with timeout 0 on an open handle has returned after its wait timed out.
C11_Witness ==
    \E t \in Threads :
        /\ WaitFailed(t)
        /\ thr[t].calls[1].r = "ETIMEDOUT"
        /\ thr[t].fd \in openFds /\ thr[t].arg = 0

\* C12: Write issues exactly one OS write call and returns the count exactly as that
\* call returned it, partial counts included; it never issues a second write.
C12_WriteOnceSameCount ==
    \A t \in Threads :
        thr[t].op = "Write" =>
            /\ thr[t].pc # "ret" => thr[t].calls = <<>>
            /\ thr[t].pc = "ret" =>
                  /\ Len(thr[t].calls) = 1
                  /\ thr[t].calls[1].call = "write"
                  /\ thr[t].n = thr[t].calls[1].n

\* A Write on an open handle has returned a partial count: more than nothing, less
\* than the buffer.
C12_Witness ==
    \E t \in Threads :
        /\ thr[t].op = "Write" /\ thr[t].pc = "ret"
        /\ ~thr[t].stale /\ thr[t].res = NoErr
        /\ thr[t].n > 0 /\ thr[t].n < MaxLen

\* ------------------------------------------------------------------ C13, C14
\* Goroutine t takes the step that is a whole call of Open.
OpenStep(t) == thr[t].pc = "idle" /\ thr'[t].op = "Open"

\* C13: Open returns either an error and no handle, the OS open having failed and
\* no descriptor being owned, or no error and an open handle whose slot holds
\* exactly the one descriptor the OS open returned, opened with the OpenMode of
\* the Options in use; never a handle together with an error.
C13_OpenHandleOrError ==
    [][\A t \in Threads :
         OpenStep(t) =>
            LET c == thr'[t].calls[1]
                h == thr'[t].h
            IN /\ Len(thr'[t].calls) = 1 /\ c.call = "open"
               /\ (thr'[t].res = NoErr) <=> (h \in Ports)
               /\ (thr'[t].res = NoErr) <=> (c.r = "nil")
               /\ thr'[t].res = NoErr =>
                     /\ h \notin made /\ made' = made \cup {h}
                     /\ c.fd \notin openFds /\ openFds' = openFds \cup {c.fd}
                     /\ f' = [f EXCEPT ![h] = c.fd]
                     /\ c.mode = OpenMode[options'[h]]
               /\ thr'[t].res # NoErr =>
                     /\ Unwrap(thr'[t].res) = <<c.r>>
                     /\ c.mode \in {DefaultOpenMode, OpenMode[CallerOpts]}
                     /\ UNCHANGED <<made, f, openFds>>]_vars

\* An Open with the caller's Options, whose mode is not the default one, has
\* returned a handle that holds the descriptor open(2) returned.
C13_Witness ==
    \E t \in Threads :
        /\ thr[t].op = "Open" /\ thr[t].pc = "ret" /\ thr[t].res = NoErr
        /\ options[thr[t].h] = CallerOpts
        /\ thr[t].calls[1].mode # DefaultOpenMode
        /\ f[thr[t].h] = thr[t].calls[1].fd
        /\ thr[t].calls[1].fd \in openFds

\* Goroutine t takes the step that is a whole call of NewPort.
NewPortStep(t) == thr[t].pc = "idle" /\ thr'[t].op = "NewPort"

\* C14: NewPort on an open descriptor returns, without an error and without any
\* OS call, a new open handle whose slot holds exactly that descriptor.
C14_AdoptWraps ==
    [][\A t \in Threads :
         NewPortStep(t) =>
            LET h == thr'[t].h
            IN /\ thr'[t].fd \in openFds
               /\ thr'[t].calls = <<>>
               /\ thr'[t].res = NoErr
               /\ h \in Ports /\ h \notin made /\ made' = made \cup {h}
               /\ f' = [f EXCEPT ![h] = thr'[t].fd]
               /\ UNCHANGED kernelVars]_vars

\* NewPort has returned a handle on a descriptor the caller had opened itself.
C14_Witness ==
    \E t \in Threads :
        /\ thr[t].op = "NewPort" /\ thr[t].pc = "ret" /\ thr[t].res = NoErr
        /\ thr[t].h \in made
        /\ f[thr[t].h] = thr[t].fd
        /\ thr[t].fd \in openFds
        /\ \A h \in made \ {thr[t].h} : f[h] # thr[t].fd

\* ------------------------------------------------------------------ C15, C16
\* The calls of a Port.MakeRaw that has returned are the tcgets alone, failed, or
\* the tcgets and then the set for TCSANOW of the raw form of what tcgets read.
MakeRawCalls(r) ==
    /\ r.calls # <<>>
    /\ r.calls[1].call = "ioctl" /\ r.calls[1].req = tcgets
    /\ IF r.calls[1].r # "nil"
       THEN /\ Len(r.calls) = 1
            /\ r.res # NoErr
            /\ Unwrap(Unwrap(r.res)) = <<r.calls[1].r>>
       ELSE /\ Len(r.calls) = 2
            /\ r.calls[2].call = "ioctl" /\ r.calls[2].req = tcsets
            /\ r.calls[2].arg = MakeRaw(r.calls[1].arg)
            /\ r.res = wrapErr("MakeRaw", wrapErr("SetAttr", ErrOf(r.calls[2].r)))

\* C15: Port.MakeRaw issues the get of the legacy attributes and then the set of
\* them for TCSANOW with the raw form of the value read; when the get fails it
\* issues no set, returns the error, and the device's attributes are as they were.
C15_MakeRawGetThenSet ==
    [][\A t \in Threads :
         thr'[t].op = "MakeRaw" =>
            /\ thr'[t].pc = "mr_get" => thr'[t].calls = <<>>
            /\ thr'[t].pc \in {"mr_load", "mr_set"} =>
                  /\ Len(thr'[t].calls) = 1
                  /\ thr'[t].calls[1].req = tcgets /\ thr'[t].calls[1].r = "nil"
            /\ thr'[t].pc = "ret" => MakeRawCalls(thr'[t])
            /\ thr[t].pc = "mr_get" /\ thr'[t].pc = "ret" => termios' = termios
            /\ thr[t].pc = "mr_set" /\ thr'[t].pc = "ret" /\ thr'[t].calls[2].r = "nil" =>
                  LegacyOf(termios'[thr'[t].calls[2].fd]) = MakeRaw(thr'[t].calls[1].arg)]_vars

\* A Port.MakeRaw has read cooked attributes and has set their raw form, which the
\* device now has.
C15_Witness ==
    \E t \in Threads :
        /\ thr[t].op = "MakeRaw" /\ thr[t].pc = "ret" /\ thr[t].res = NoErr
        /\ Len(thr[t].calls) = 2
        /\ thr[t].calls[1].arg = TermiosCooked
        /\ thr[t].calls[2].arg # TermiosCooked
        /\ LegacyOf(termios[thr[t].calls[2].fd]) = thr[t].calls[2].arg

\* C16: SetAttr issues tcsets, tcsetsw, tcsetsf for TCSANOW, TCSADRAIN, TCSAFLUSH,
\* and SetAttr2 issues tcsets2, tcsetsw2, tcsetsf2 for them.
C16_RequestCodes ==
    \A t \in Threads :
        thr[t].op \in {"SetAttr", "SetAttr2"} /\ thr[t].pc = "ret" =>
            /\ Len(thr[t].calls) = 1
            /\ thr[t].arg \in Actions
            /\ thr[t].calls[1].req =
                  IF thr[t].op = "SetAttr"
                  THEN CASE thr[t].arg = TCSANOW -> tcsets
                         [] thr[t].arg = TCSADRAIN -> tcsetsw
                         [] thr[t].arg = TCSAFLUSH -> tcsetsf
                  ELSE CASE thr[t].arg = TCSANOW -> tcsets2
                         [] thr[t].arg = TCSADRAIN -> tcsetsw2
                         [] thr[t].arg = TCSAFLUSH -> tcsetsf2

\* A SetAttr for TCSAFLUSH and a SetAttr2 for TCSADRAIN have returned.
C16_Witness ==
    \E t, u \in Threads :
        /\ thr[t].op = "SetAttr" /\ thr[t].pc = "ret" /\ thr[t].arg = TCSAFLUSH
        /\ thr[u].op = "SetAttr2" /\ thr[u].pc = "ret" /\ thr[u].arg = TCSADRAIN
        /\ thr[u].res = NoErr

\* ------------------------------------------------------------------ C17 .. C20
\* C17: after MakeRaw, on a Termios or a Termios2 and whatever the value before,
\* ECHO, ICANON, ISIG, IEXTEN and OPOST are clear, the character size field is
\* CS8 and PARENB is clear.
C17_MakeRawClears ==
    applied.op = "MakeRaw" =>
        /\ And(attrs.Lflag, OrAll({ECHO, ICANON, ISIG, IEXTEN})) = {}
        /\ And(attrs.Oflag, Bits(OPOST)) = {}
        /\ And(attrs.Cflag, Bits(CSIZE)) = Bits(CS8)
        /\ And(attrs.Cflag, Bits(PARENB)) = {}

\* MakeRaw was applied to the default-constructed value, and to nothing before it.
C17_Witness ==
    /\ applied.op = "MakeRaw" /\ applied.k = 1
    /\ applied.before \in {TermiosZero, Termios2Of(TermiosZero, 0, 0)}
    /\ attrs.Cflag = Bits(CS8)

\* C18: MakeRaw is idempotent: the result of MakeRaw is a value that MakeRaw
\* leaves as it is, in every field.
C18_MakeRawIdempotent ==
    applied.op = "MakeRaw" =>
        /\ attrs = MakeRaw(applied.before)
        /\ MakeRaw(attrs) = attrs

\* MakeRaw was applied to a value with parity enabled, and changed it.
C18_Witness ==
    /\ applied.op = "MakeRaw"
    /\ And(applied.before.Cflag, Bits(PARENB)) # {}
    /\ attrs # applied.before

\* the baud-rate field of an attributes value
Baud(a) == And(a.Cflag, Bits(CBAUD))

\* C19: after SetCustomSpeed(hz) the baud-rate field is BOTHER and ISpeed and
\* OSpeed are hz, whatever the baud setting before; SetCustomIOSpeed(in, out)
\* leaves BOTHER, ISpeed = in and OSpeed = out; and SetCustomSpeed(hz) gives the
\* value SetCustomIOSpeed(hz, hz) gives.
C19_CustomSpeed ==
    /\ applied.op = "SetCustomSpeed" =>
          /\ Baud(attrs) = Bits(BOTHER)
          /\ attrs.ISpeed = applied.args[1] /\ attrs.OSpeed = applied.args[1]
          /\ attrs = SetCustomIOSpeed(applied.before, applied.args[1], applied.args[1])
    /\ applied.op = "SetCustomIOSpeed" =>
          /\ Baud(attrs) = Bits(BOTHER)
          /\ attrs.ISpeed = applied.args[1] /\ attrs.OSpeed = applied.args[2]

\* SetCustomIOSpeed was given two different rates, on a value that SetSpeed had
\* set to B4000000.
C19_Witness ==
    /\ applied.op = "SetCustomIOSpeed" /\ applied.k = 2
    /\ applied.args[1] # applied.args[2]
    /\ Baud(applied.before) = Bits(B4000000)
    /\ Baud(attrs) # Baud(applied.before)

\* C20: after SetSpeed(s), s an enumerated speed code, the baud-rate field is s,
\* with nothing left of the code before, and the Cflag bits outside CBAUD are
\* the ones before.
C20_SetSpeed ==
    applied.op = "SetSpeed" =>
        /\ applied.args[1] \in SpeedCodes
        /\ Baud(attrs) = Bits(applied.args[1])
        /\ AndNot(attrs.Cflag, Bits(CBAUD)) = AndNot(applied.before.Cflag, Bits(CBAUD))

\* SetSpeed(B9600) was applied to a value that SetSpeed had set to B57600, whose
\* code has a bit that B9600 has not.
C20_Witness ==
    /\ applied.op = "SetSpeed" /\ applied.k = 2
    /\ applied.args[1] = B9600
    /\ Baud(applied.before) = Bits(B57600)
    /\ AndNot(applied.before.Cflag, Bits(CBAUD)) # {}

LineDone(t, name, x) ==
    /\ thr[t].pc = "ret"
    /\ thr[t].op = name
    /\ thr[t].res = NoErr
    /\ Len(thr[t].calls) = 1
    /\ thr[t].calls[1].arg = x

\* the call of u took the device as the call of t left it
LineNext(t, u) ==
    /\ t # u
    /\ thr[u].calls[1].fd = thr[t].calls[1].fd
    /\ thr[u].calls[1].before = thr[t].calls[1].after

\* EnableModemLines(x) by t, then DisableModemLines(x) by u
EnableThenDisable(t, u, x) ==
    /\ LineDone(t, "EnableModemLines", x)
    /\ LineDone(u, "DisableModemLines", x)
    /\ LineNext(t, u)

\* C22 as stated: EnableModemLines(X) followed by DisableModemLines(X) returns the
\* modem lines to the state before the two calls, for every X and every state
\* before.
C22_Original ==
    \A t, u \in Threads, x \in LineArgs :
        EnableThenDisable(t, u, x) => thr[u].calls[1].after = thr[t].calls[1].before

\* C22, amended: EnableModemLines(X) followed by DisableModemLines(X) leaves the
\* modem lines as they were before the two calls with the lines of X cleared,
\* which is the state before exactly when no line of X was set in it.
C22_EnableDisable ==
    \A t, u \in Threads, x \in LineArgs :
        EnableThenDisable(t, u, x) =>
            LET s0 == thr[t].calls[1].before
                s2 == thr[u].calls[1].after
            IN /\ s2 = s0 \ x
               /\ (s2 = s0) <=> (s0 \cap x = {})

C22_Witness ==
    \E t, u \in Threads, x \in LineArgs :
        /\ EnableThenDisable(t, u, x)
        /\ thr[t].calls[1].before \cap x # {}
        /\ thr[t].calls[1].before \ x # {}

\* ------------------------------------------------------------------ C23
\* SetModemLines(y) by t, then GetModemLines by u
SetThenGet(t, u, y) ==
    /\ LineDone(t, "SetModemLines", y)
    /\ LineDone(u, "GetModemLines", {})
    /\ LineNext(t, u)

\* C23: SetModemLines(Y) overwrites the modem lines: the GetModemLines after it
\* returns exactly Y, whatever the lines were before SetModemLines.
C23_SetOverwrites ==
    \A t, u \in Threads, y \in LineArgs :
        SetThenGet(t, u, y) => thr[u].line = y /\ thr[t].calls[1].after = y

C23_Witness ==
    \E t, u \in Threads, y \in LineArgs :
        /\ SetThenGet(t, u, y)
        /\ thr[t].calls[1].before \ y # {}
        /\ thr[u].line = y

\* ------------------------------------------------------------------ C24
\* EnableModemLines(a) by t and DisableModemLines(b) by u, one right after the
\* other in either order, on one descriptor
EnableWithDisable(t, u, a, b) ==
    /\ LineDone(t, "EnableModemLines", a)
    /\ LineDone(u, "DisableModemLines", b)
    /\ LineNext(t, u) \/ LineNext(u, t)

\* the lines before the first of the two calls, and after the second
PairBefore(t, u) ==
    IF LineNext(t, u) THEN thr[t].calls[1].before ELSE thr[u].calls[1].before

PairAfter(t, u) ==
    IF LineNext(t, u) THEN thr[u].calls[1].after ELSE thr[t].calls[1].after

\* C24: EnableModemLines and DisableModemLines are each one ioctl, set indicated
\* bits and clear indicated bits, with no read of the lines; when two goroutines
\* call EnableModemLines(A) and DisableModemLines(B) with A and B disjoint on one
\* handle, in either order of the two ioctls the lines of A end set, the lines of
\* B clear, and every other line as before.
C24_EnableDisableAtomic ==
    \A t, u \in Threads, a, b \in LineArgs :
        (EnableWithDisable(t, u, a, b) /\ a \cap b = {}) =>
            /\ thr[t].calls[1].req = tiocmbis
            /\ thr[u].calls[1].req = tiocmbic
            /\ a \subseteq PairAfter(t, u)
            /\ b \cap PairAfter(t, u) = {}
            /\ PairAfter(t, u) \ (a \cup b) = PairBefore(t, u) \ (a \cup b)

C24_Witness ==
    \E t, u \in Threads, a, b \in LineArgs :
        /\ EnableWithDisable(t, u, a, b)
        /\ a \cap b = {}
        /\ LineNext(u, t)
        /\ thr[t].h = thr[u].h
        /\ PairBefore(t, u) \cap b # {}
        /\ PairBefore(t, u) \ (a \cup b) # {}

\* ------------------------------------------------------------------ C25
\* C25: Flush(TCIOFLUSH) on an open handle issues one ioctl, with request tcflsh
\* and argument TCIOFLUSH; when the ioctl fails Flush returns the errno wrapped as
\* "Flush", which Unwrap gives back, and when it succeeds Flush returns nil.
C25_FlushOnce ==
    \A t \in Threads :
        (thr[t].pc = "ret" /\ thr[t].op = "Flush" /\ thr[t].arg = TCIOFLUSH) =>
            /\ Len(thr[t].calls) = 1
            /\ thr[t].calls[1].call = "ioctl"
            /\ thr[t].calls[1].req = tcflsh
            /\ thr[t].calls[1].arg = TCIOFLUSH
            /\ thr[t].calls[1].fd = thr[t].fd
            /\ IF thr[t].calls[1].r = "nil"
               THEN thr[t].res = NoErr
               ELSE /\ thr[t].res = <<"Flush", thr[t].calls[1].r>>
                    /\ Unwrap(thr[t].res) = <<thr[t].calls[1].r>>

C25_Witness ==
    \E t \in Threads :
        /\ thr[t].pc = "ret" /\ thr[t].op = "Flush" /\ thr[t].arg = TCIOFLUSH
        /\ thr[t].fd \in openFds
        /\ thr[t].calls[1].r = "EIO"
        /\ thr[t].res = <<"Flush", "EIO">>

\* ------------------------------------------------------------------ C29
\* C29: every request code that more than one of the files of request codes
\* defines has the same number in all of them, the code of DisableModemLines and
\* the four codes of the extended attributes among them.
C29_SameCodes ==
    \A v \in Builds : \A n \in DOMAIN Codes(v) : Codes(v)[n] = Codes(build)[n]

\* ------------------------------------------------------------------ C26
\* The error carries the name of an operation: under wrappers with no message
\* there is one with a message, and the whole reads "<operation>: <cause>".
NamesOperation(e) ==
    \E i \in 1..(Len(e) - 1) :
        /\ e[i] # ""
        /\ \A j \in 1..(i - 1) : e[j] = ""
        /\ Message(e) = e[i] \o ": " \o Message(SubSeq(e, i + 1, Len(e)))

\* C26: a call of the handle whose last OS call failed returns an error that
\* carries the name of an operation, with the message "<operation>: <cause>".
C26_NamedFailure ==
    \A t \in Threads :
        (/\ thr[t].pc = "ret"
         /\ Len(thr[t].calls) > 0
         /\ thr[t].calls[Len(thr[t].calls)].r # "nil") =>
            NamesOperation(thr[t].res)

\* ------------------------------------------------------------------ C27
\* C27 as stated: wrapErr(name, nil) is nil, and for a cause that is not nil
\* wrapErr(name, cause) unwraps to the cause and has the message
\* name + ": " + the message of the cause, for every name.
C27_Original ==
    applied.op = "wrapErr" =>
        LET name == applied.args[1]
            cause == applied.args[2]
        IN IF cause = NoErr THEN err = NoErr
           ELSE /\ err # NoErr
                /\ Unwrap(err) = cause
                /\ Message(err) = name \o ": " \o Message(cause)

\* C27, amended: wrapErr(name, nil) is nil, and for a cause that is not nil
\* wrapErr(name, cause) unwraps to the cause; its message is
\* name + ": " + the message of the cause when name is not empty, and the message
\* of the cause alone when name is empty.
C27_Envelope ==
    applied.op = "wrapErr" =>
        LET name == applied.args[1]
            cause == applied.args[2]
        IN IF cause = NoErr THEN err = NoErr
           ELSE /\ err # NoErr
                /\ Unwrap(err) = cause
                /\ Message(err) = IF name = "" THEN Message(cause)
                                  ELSE name \o ": " \o Message(cause)

C27_Witness ==
    /\ applied.op = "wrapErr"
    /\ applied.k = 2
    /\ applied.args[1] = ""
    /\ Len(err) = 3
    /\ Message(err) = "Read: EIO"

\* ------------------------------------------------------------------ C28
\* C28: the read timeout that the Read of a Port uses is the one the Port was
\* made with: no step, on this Port, on another Port or on the caller's Options,
\* changes it.
C28_TimeoutFixed ==
    [][\A h \in made : ReadTimeout'[options'[h]] = ReadTimeout[options[h]]]_vars

\* ------------------------------------------------------------------ C30
\* Goroutine t returned from a Close() whose OS close failed.
CloseFailed(t) ==
    /\ thr[t].pc = "ret"
    /\ thr[t].op = "Close"
    /\ Len(thr[t].calls) = 1
    /\ thr[t].calls[1].r # "nil"

\* C30: when the OS close fails inside Close(), Close returns the errno wrapped
\* as "Close" and the Port is closed all the same: the slot holds -1, the Port has
\* had one OS close and none is pending, and a Close() after it returns ErrClosed
\* with no OS call.
C30_FailedCloseCloses ==
    \A t \in Threads :
        CloseFailed(t) =>
            LET h == thr[t].h
            IN /\ thr[t].res = <<"Close", thr[t].calls[1].r>>
               /\ f[h] = Invalid
               /\ nOsClose[h] = 1
               /\ \A u \in Threads \ {t} :
                    (thr[u].op = "Close" /\ thr[u].h = h) =>
                        /\ thr[u].pc = "ret"
                        /\ thr[u].res = ErrClosed
                        /\ thr[u].calls = <<>>

C30_Witness ==
    \E t, u \in Threads :
        /\ CloseFailed(t)
        /\ thr[t].res = <<"Close", "EIO">>
        /\ u # t
        /\ thr[u].op = "Close" /\ thr[u].h = thr[t].h /\ thr[u].pc = "ret"
        /\ thr[u].res = ErrClosed

\* ------------------------------------------------------------------ C31
\* the masks of the four statements of MakeRaw
RawIflag == OrAll({IGNBRK, BRKINT, PARMRK, ISTRIP, INLCR, IGNCR, ICRNL, IXON})
RawLflag == OrAll({ECHO, ECHONL, ICANON, ISIG, IEXTEN})
RawCflag == OrAll({CSIZE, PARENB})

\* C31: MakeRaw changes only the bits in its masks: the Iflag bits outside
\* IGNBRK..IXON, the Oflag bits other than OPOST, the Lflag bits outside
\* ECHO..IEXTEN, the Cflag bits outside CSIZE|PARENB (the baud field among
\* them), Line, Cc and, on a Termios2, ISpeed and OSpeed are as before.
C31_MakeRawFrame ==
    applied.op = "MakeRaw" =>
        LET b == applied.before
        IN /\ DOMAIN attrs = DOMAIN b
           /\ attrs.Iflag \ RawIflag = b.Iflag \ RawIflag
           /\ attrs.Oflag \ Bits(OPOST) = b.Oflag \ Bits(OPOST)
           /\ attrs.Lflag \ RawLflag = b.Lflag \ RawLflag
           /\ attrs.Cflag \ RawCflag = b.Cflag \ RawCflag
           /\ Baud(attrs) = Baud(b)
           /\ attrs.Line = b.Line
           /\ attrs.Cc = b.Cc
           /\ IsTermios2(b) => attrs.ISpeed = b.ISpeed /\ attrs.OSpeed = b.OSpeed

\* MakeRaw was applied to a Termios2 with a baud code, speeds and bits outside the
\* masks set, and changed it.
C31_Witness ==
    /\ applied.op = "MakeRaw"
    /\ IsTermios2(applied.before)
    /\ applied.before.ISpeed = 9600
    /\ Baud(applied.before) # {}
    /\ applied.before.Lflag \ RawLflag # {}
    /\ attrs # applied.before

\* ------------------------------------------------------------------ C32
\* C32: Port.MakeRaw takes no lock between its get and its set: when the device's
\* attributes are no longer the ones MakeRaw read, another goroutine's set having
\* completed in between, the ioctl of MakeRaw's set still succeeds and leaves the
\* device with the raw form of the attributes read earlier, in place of the other
\* goroutine's values.
C32_MakeRawLostUpdate ==
    [][\A t \in Threads :
         (/\ thr[t].op = "MakeRaw" /\ thr[t].pc = "mr_set"
          /\ thr'[t].pc = "ret" /\ thr'[t].res = NoErr
          /\ LegacyOf(termios[thr[t].fd]) # thr[t].calls[1].arg) =>
               /\ thr'[t].calls[2].arg = MakeRaw(thr[t].calls[1].arg)
               /\ LegacyOf(termios'[thr[t].fd]) = MakeRaw(thr[t].calls[1].arg)
               /\ locked' = locked]_vars

\* MakeRaw read the cooked attributes, a SetAttr of another goroutine then set
\* every bit, and MakeRaw's set put the raw form of the cooked attributes over it.
C32_Witness ==
    \E t, u \in Threads :
        /\ t # u
        /\ thr[t].op = "MakeRaw" /\ thr[t].pc = "ret" /\ thr[t].res = NoErr
        /\ thr[u].op = "SetAttr" /\ thr[u].pc = "ret" /\ thr[u].res = NoErr
        /\ thr[u].fd = thr[t].fd
        /\ thr[u].calls[1].arg = TermiosOnes
        /\ thr[t].calls[1].arg = TermiosCooked
        /\ termios[thr[t].fd] = Termios2Of(MakeRaw(TermiosCooked), 9600, 9600)

\* ------------------------------------------------------------------ C33
\* C33: a Port keeps the caller's Options by reference. Port.SetReadTimeout on
\* the first Port changes the timeout of every Port made with the same Options
\* and of no other; a Read begun later tests the value stored last and waits
\* exactly when it is >= 0; and a Read that SetReadTimeout overtakes between its
\* test and its wait passes the wait the old or the new value.
C33_SharedTimeout ==
    [][/\ (ReadTimeout' # ReadTimeout /\ 1 \in made) =>
             /\ \A g \in made :
                  options[g] = options[1] =>
                     /\ ReadTimeout'[options[g]] # ReadTimeout[options[g]]
                     /\ ReadTimeout'[options[g]] = ReadTimeout'[options[1]]
             /\ \A g \in made :
                  options[g] # options[1] =>
                     ReadTimeout'[options[g]] = ReadTimeout[options[g]]
       /\ \A t \in Threads :
            (thr[t].pc = "idle" /\ thr'[t].op = "Read") =>
                /\ thr'[t].tmo = ReadTimeout[options[thr'[t].h]]
                /\ thr'[t].pc = "rt_arg" <=> thr'[t].tmo >= 0
                /\ thr'[t].pc = "rd_load" <=> thr'[t].tmo < 0
       /\ \A t \in Threads :
            (thr[t].pc = "rt_arg" /\ thr'[t].pc = "rt_pload") =>
                /\ thr'[t].arg = ReadTimeout[options[thr[t].h]]
                /\ thr'[t].arg # thr'[t].tmo => thr'[t].raced]_vars

\* Both Ports were made with the caller's Options, whose timeout is -1 at first;
\* a Read on the second has waited with timeout 0, which SetReadTimeout on the
\* first stored.
C33_Witness ==
    \E t \in Threads :
        /\ {1, 2} \subseteq made
        /\ options[1] = CallerOpts /\ options[2] = CallerOpts
        /\ thr[t].op = "Read" /\ thr[t].h = 2 /\ thr[t].pc = "ret"
        /\ thr[t].tmo = 0
        /\ thr[t].calls[1].call = "poll"

\* ------------------------------------------------------------------ C34
\* Port h was made with no options: it has the Options that NewOptions() built
\* for it.
OwnOptions(h) == h \in made /\ options[h] = h

\* Port h has the default timeout, and no Read on it waits.
NeverWaits(h) ==
    /\ ReadTimeout[options[h]] = -1
    /\ \A t \in Threads :
         (thr[t].op = "Read" /\ thr[t].h = h) =>
             /\ thr[t].tmo = -1
             /\ ~InTimedRead(t)
             /\ thr[t].pc = "ret" =>
                   Len(thr[t].calls) = 1 /\ thr[t].calls[1].call = "read"

\* the slave GetPTPeer returned, and the two Ports OpenPTY returned, have
\* Options of their own
PeersOwnOptions ==
    \A t \in Threads :
        /\ (thr[t].op = "GetPTPeer" /\ thr[t].pc = "ret" /\ thr[t].res = NoErr) =>
               OwnOptions(thr[t].s)
        /\ (thr[t].op = "OpenPTY" /\ thr[t].pc = "ret" /\ thr[t].res = NoErr) =>
               OwnOptions(thr[t].h) /\ OwnOptions(thr[t].s)

Swapped(h) ==
    \/ nOsClose[h] > 0
    \/ \E u \in Threads : thr[u].op = "Close" /\ thr[u].h = h /\ thr[u].pc = "close"

\* C35: Fd() returns the descriptor the Port owns while no Close() has done its
\* swap, and -1 from the swap on, the time between the swap and the OS close
\* included; it issues no OS call and changes nothing of the Port or the kernel.
C35_FdValue ==
    [][\A t \in Threads :
         (thr[t].pc = "idle" /\ thr'[t].op = "Fd") =>
             LET h == thr'[t].h
             IN /\ thr'[t].pc = "ret"
                /\ thr'[t].calls = <<>>
                /\ thr'[t].res = NoErr
                /\ IF Swapped(h)
                   THEN thr'[t].fd = Invalid
                   ELSE thr'[t].fd \in openFds /\ thr'[t].fd = f[h]
                /\ UNCHANGED <<portVars, ReadTimeout, kernelVars, nOsClose>>]_vars

\* Fd() has returned -1 for a Port whose Close() has done the swap and has not yet
\* called the OS close: the descriptor is still open in the kernel.
C35_Witness ==
    \E t, u \in Threads :
        /\ thr[t].op = "Fd" /\ thr[t].pc = "ret" /\ thr[t].fd = Invalid
        /\ thr[u].op = "Close" /\ thr[u].pc = "close" /\ thr[u].h = thr[t].h
        /\ thr[u].fd \in openFds
        /\ nOsClose[thr[t].h] = 0

\* ------------------------------------------------------------------ C36
\* C36: whatever the Action, SetAttr issues tcsets, tcsetsw or tcsetsf and
\* SetAttr2 issues tcsets2, tcsetsw2 or tcsetsf2, never the code of another
\* operation.
C36_OnlySetCodes ==
    \A t \in Threads :
        (thr[t].op \in {"SetAttr", "SetAttr2"} /\ thr[t].pc = "ret") =>
            /\ Len(thr[t].calls) = 1
            /\ thr[t].calls[1].req \in
                  IF thr[t].op = "SetAttr" THEN {tcsets, tcsetsw, tcsetsf}
                  ELSE {tcsets2, tcsetsw2, tcsetsf2}

====
